---- MODULE Spec2Model ----
(***************************************************************************)
(* Model of recur_scan/features.py: the feature analyzers over a           *)
(* transaction and a history list, and the aggregator get_features.        *)
(*                                                                         *)
(* A transaction is a record [id, name, amount, date].  Amounts are held   *)
(* in whole cents (amount 2.99 is 299).  A date is [kind, y, m, d]: kind   *)
(* "date" is a datetime.date object, kind "str" is the ISO string          *)
(* "YYYY-MM-DD"; the analyzers differ in which of the two they accept.     *)
(* A call either returns a value, Ok(v), or raises, Raise(e).              *)
(***************************************************************************)
EXTENDS Integers, Sequences, FiniteSets, TLC

VARIABLES
    history,      \* the caller's list all_transactions (a Python list: mutable)
    given,        \* the list as the caller built it, before any call
    transaction,  \* the target transaction
    call,         \* the analyzer called last ("none" before any call)
    result        \* what that call returned or raised

vars == <<history, given, transaction, call, result>>

\* Longest history drawn from the pool in Init.
MaxLen == 3
\* Largest n_days_off the caller passes.
MaxOff == 1
\* Longest history of the tolerance inputs.
MaxAmountLen == 2
\* Largest amount, in cents, of the ends-in-99 inputs (besides the listed ones).
MaxCents == 2000
\* Longest history of the month inputs.
MaxMonthsLen == 4
\* Most gaps between the dates of the interval-consistency inputs.
MaxGaps == 6

-----------------------------------------------------------------------------
(* Values *)

Ok(v) == [ok |-> TRUE, val |-> v]
Raise(e) == [ok |-> FALSE, exc |-> e]

Abs(x) == IF x < 0 THEN 0 - x ELSE x

RECURSIVE GCD(_, _)
GCD(a, b) == IF b = 0 THEN a ELSE GCD(b, a % b)

\* An exact quotient n/d (d # 0), in lowest terms with a positive denominator.
Rat(n, d) ==
    LET g == GCD(Abs(n), Abs(d))
        s == IF d < 0 THEN 0 - 1 ELSE 1
    IN  [n |-> (s * n) \div g, d |-> (s * d) \div g]

RatInt(k) == [n |-> k, d |-> 1]
RatLeq(a, b) == a.n * b.d <= b.n * a.d
RatLt(a, b) == a.n * b.d < b.n * a.d
RatAdd(a, b) == Rat(a.n * b.d + b.n * a.d, a.d * b.d)
RatSub(a, b) == Rat(a.n * b.d - b.n * a.d, a.d * b.d)
RatMul(a, b) == Rat(a.n * b.n, a.d * b.d)
RatDiv(a, b) == Rat(a.n * b.d, a.d * b.n)
RatAbs(a) == [n |-> Abs(a.n), d |-> a.d]

RECURSIVE SumSeq(_)
SumSeq(s) == IF s = <<>> THEN 0 ELSE Head(s) + SumSeq(Tail(s))

\* Number of positions of s whose element satisfies P.
CountIf(s, P(_)) == Cardinality({i \in 1..Len(s) : P(s[i])})

Range(s) == {s[i] : i \in 1..Len(s)}

-----------------------------------------------------------------------------
(* datetime.date *)

is_leap(y) == y % 4 = 0 /\ (y % 100 # 0 \/ y % 400 = 0)

DAYS_IN_MONTH == <<31, 28, 31, 30, 31, 30, 31, 31, 30, 31, 30, 31>>

days_in_month(y, m) == IF m = 2 /\ is_leap(y) THEN 29 ELSE DAYS_IN_MONTH[m]

days_before_year(y) ==
    LET p == y - 1 IN p * 365 + p \div 4 - p \div 100 + p \div 400

RECURSIVE days_before_month(_, _)
days_before_month(y, m) ==
    IF m = 1 THEN 0 ELSE days_before_month(y, m - 1) + days_in_month(y, m - 1)

\* date.toordinal(): the proleptic Gregorian day number of (y, m, d).
toordinal(dt) == days_before_year(dt.y) + days_before_month(dt.y, dt.m) + dt.d

\* date.weekday(): Monday = 0 ... Sunday = 6.
weekday(dt) == (toordinal(dt) + 6) % 7

\* (a - b).days for two date objects.
DaysBetween(a, b) == toordinal(a) - toordinal(b)

IsDate(dt) == dt.kind = "date"
IsStr(dt) == dt.kind = "str"

\* Python's order on two dates of the same kind: chronological for date
\* objects, lexicographic for zero-padded ISO strings, which is the same order.
DateLeq(a, b) == toordinal(a) <= toordinal(b)
DateLt(a, b) == toordinal(a) < toordinal(b)

-----------------------------------------------------------------------------
(* sorted(), list.sort(): stable, ascending by date *)

RECURSIVE InsertByDate(_, _)
InsertByDate(s, x) ==
    IF s = <<>> THEN <<x>>
    ELSE IF DateLt(x.date, s[Len(s)].date)
         THEN Append(InsertByDate(SubSeq(s, 1, Len(s) - 1), x), s[Len(s)])
         ELSE Append(s, x)

RECURSIVE SortByDate(_)
SortByDate(s) ==
    IF s = <<>> THEN <<>>
    ELSE InsertByDate(SortByDate(SubSeq(s, 1, Len(s) - 1)), s[Len(s)])

RECURSIVE InsertInt(_, _)
InsertInt(s, x) ==
    IF s = <<>> THEN <<x>>
    ELSE IF x < s[Len(s)]
         THEN Append(InsertInt(SubSeq(s, 1, Len(s) - 1), x), s[Len(s)])
         ELSE Append(s, x)

RECURSIVE SortInts(_)
SortInts(s) ==
    IF s = <<>> THEN <<>>
    ELSE InsertInt(SortInts(SubSeq(s, 1, Len(s) - 1)), s[Len(s)])

Amounts(H) == [i \in 1..Len(H) |-> H[i].amount]

\* [(dates[i] - dates[i-1]).days for i in range(1, len(dates))] over the
\* dates sorted ascending.
Intervals(H) ==
    LET o == SortInts([i \in 1..Len(H) |-> toordinal(H[i].date)])
    IN  [i \in 1..(Len(H) - 1) |-> o[i + 1] - o[i]]

AllDates(H) == \A i \in 1..Len(H) : IsDate(H[i].date)

\* statistics.median of a non-empty list of integers, as an exact quotient.
median(s) ==
    LET o == SortInts(s)
        k == Len(s)
    IN  IF k % 2 = 1 THEN RatInt(o[(k + 1) \div 2])
        ELSE Rat(o[k \div 2] + o[k \div 2 + 1], 2)

\* statistics.mean of a non-empty list of integers.
mean(s) == Rat(SumSeq(s), Len(s))

\* The square of statistics.stdev(s), the sample variance, for Len(s) >= 2:
\* sum((x - mean)^2) / (n - 1) = (n * sum(x^2) - sum(x)^2) / (n * (n - 1)).
variance(s) ==
    LET k == Len(s)
        sq == SumSeq([i \in 1..k |-> s[i] * s[i]])
        su == SumSeq(s)
    IN  Rat(k * sq - su * su, k * (k - 1))

-----------------------------------------------------------------------------
(* Analyzers on the day-of-month and on day distances *)

\* datetime.strptime(date_str, "%Y-%m-%d").date(): a string parses to the
\* date object of the same day; a date object is not a string (TypeError).
_parse_date(dt) ==
    IF IsStr(dt) THEN Ok([kind |-> "date", y |-> dt.y, m |-> dt.m, d |-> dt.d])
    ELSE Raise("TypeError")

\* The loop body without its skip of the distances below
\* n_days_apart - n_days_off: the target itself and its near neighbours are
\* then counted.
DaysApartCounted_NoMinimum(days_diff, n_days_apart, n_days_off) ==
    LET lower_remainder == n_days_apart - n_days_off
        upper_remainder == n_days_off
        remainder == days_diff % n_days_apart
    IN  remainder <= upper_remainder \/ remainder >= lower_remainder

DaysApartCounted_ExactOff(days_diff, n_days_apart, n_days_off) ==
    LET lower_remainder == n_days_apart - n_days_off
        upper_remainder == n_days_off
        remainder == days_diff % n_days_apart
    IN  /\ ~(days_diff < n_days_apart - n_days_off)
        /\ (remainder = upper_remainder \/ remainder = lower_remainder)

\* The loop body of get_n_transactions_days_apart for one history date at
\* day distance days_diff: TRUE when the transaction is counted.
DaysApartCounted(days_diff, n_days_apart, n_days_off) ==
    LET lower_remainder == n_days_apart - n_days_off
        upper_remainder == n_days_off
        remainder == days_diff % n_days_apart
    IN  /\ ~(days_diff < n_days_apart - n_days_off)
        /\ (remainder <= upper_remainder \/ remainder >= lower_remainder)

get_n_transactions_days_apart(t, H, n_days_apart, n_days_off) ==
    IF ~_parse_date(t.date).ok THEN _parse_date(t.date)
    ELSE IF \E i \in 1..Len(H) : ~_parse_date(H[i].date).ok THEN Raise("TypeError")
    ELSE LET transaction_date == _parse_date(t.date).val
             days_diff(h) == Abs(DaysBetween(_parse_date(h.date).val, transaction_date))
             counted(h) == DaysApartCounted(days_diff(h), n_days_apart, n_days_off)
         IN  Ok(CountIf(H, counted))

\* int(date.split("-")[2]): the day field of an ISO string; a date object
\* has no split (AttributeError).
_get_day(dt) == IF IsStr(dt) THEN Ok(dt.d) ELSE Raise("AttributeError")

\* get_n_transactions_same_day with the days of the month taken round the
\* month end: day 31 and day 1 are one day apart.
get_n_transactions_same_day_WrapAround(t, H, n_days_off) ==
    IF H = <<>> THEN Ok(0)
    ELSE IF ~_get_day(H[1].date).ok THEN _get_day(H[1].date)
    ELSE IF ~_get_day(t.date).ok THEN _get_day(t.date)
    ELSE IF \E i \in 1..Len(H) : ~_get_day(H[i].date).ok THEN Raise("AttributeError")
    ELSE LET apart(h) == Abs(_get_day(h.date).val - _get_day(t.date).val)
             same(h) == apart(h) <= n_days_off \/ 31 - apart(h) <= n_days_off
         IN  Ok(CountIf(H, same))

get_n_transactions_same_day(t, H, n_days_off) ==
    IF H = <<>> THEN Ok(0)
    ELSE IF ~_get_day(H[1].date).ok THEN _get_day(H[1].date)
    ELSE IF ~_get_day(t.date).ok THEN _get_day(t.date)
    ELSE IF \E i \in 1..Len(H) : ~_get_day(H[i].date).ok THEN Raise("AttributeError")
    ELSE LET same(h) == Abs(_get_day(h.date).val - _get_day(t.date).val) <= n_days_off
         IN  Ok(CountIf(H, same))

get_pct_transactions_same_day(t, H, n_days_off) ==
    LET n == get_n_transactions_same_day(t, H, n_days_off)
    IN  IF ~n.ok THEN n
        ELSE IF Len(H) = 0 THEN Raise("ZeroDivisionError")
        ELSE Ok(Rat(n.val, Len(H)))

-----------------------------------------------------------------------------
(* Analyzers on amounts *)

\* floor(log2(a / b)) for integers a > 0, b > 0.
RECURSIVE FloorLog2Up(_, _, _)
FloorLog2Up(a, b, e) == IF a < 2 * b THEN e ELSE FloorLog2Up(a, 2 * b, e + 1)
RECURSIVE FloorLog2Down(_, _, _)
FloorLog2Down(a, b, e) == IF a >= b THEN e ELSE FloorLog2Down(2 * a, b, e - 1)
FloorLog2(a, b) == IF a >= b THEN FloorLog2Up(a, b, 0) ELSE FloorLog2Down(a, b, 0)

RECURSIVE Pow2Mod25(_)
Pow2Mod25(e) == IF e = 0 THEN 1 ELSE (2 * Pow2Mod25(e - 1)) % 25

\* transaction.amount * 100 in IEEE-754 binary64, for an amount of c > 0
\* cents: TRUE when the product is the integer c exactly.  The amount is the
\* double M / 2^k nearest to c / 100 (2^52 <= M < 2^53); 25 * M misses
\* c * 2^(k-2) by err, |err| <= 12, so the exact product is c + err / 2^(k-2),
\* which is err * 2^(2 - gap) units in the last place of c away from c, where
\* gap = floor(log2 c) - floor(log2 (c / 100)) is 6 or 7.  Round-to-nearest-even
\* returns c when that is at most one half.
Times100IsExact(c) ==
    LET ea == FloorLog2(c, 100)
        ec == FloorLog2(c, 1)
        r == ((c % 25) * Pow2Mod25(50 - ea)) % 25
        err == IF r <= 12 THEN r ELSE 25 - r
    IN  IF ec - ea = 6 THEN err <= 8 ELSE TRUE

\* (transaction.amount * 100) % 100 == 99.  A product that is not the whole
\* number of cents has a fractional remainder, which never equals 99; for a
\* negative amount the remainder of -c is 100 - c % 100 (Python's sign rule).
get_ends_in_99(t) ==
    LET c == t.amount
    IN  IF c > 0 THEN Ok(Times100IsExact(c) /\ c % 100 = 99)
        ELSE IF c = 0 THEN Ok(FALSE)
        ELSE Ok(Times100IsExact(0 - c) /\ (100 - ((0 - c) % 100)) % 100 = 99)

\* get_n_transactions_same_amount that leaves the target itself out of the
\* count.
get_n_transactions_same_amount_NotItself(t, H) ==
    LET same(h) == h.amount = t.amount /\ h.id # t.id
    IN  Ok(CountIf(H, same))

get_n_transactions_same_amount(t, H) ==
    LET same(h) == h.amount = t.amount
    IN  Ok(CountIf(H, same))

get_percent_transactions_same_amount(t, H) ==
    IF H = <<>> THEN Ok(RatInt(0))
    ELSE LET same(h) == h.amount = t.amount
         IN  Ok(Rat(CountIf(H, same), Len(H)))

\* tolerance is held in whole percent: tol = 5 is tolerance 0.05.
\* lower_bound <= t.amount <= upper_bound with the bounds
\* current_amount * (1 -+ tolerance), compared exactly (scaled by 100).
WithinTolerance(current_amount, amount, tol) ==
    /\ current_amount * (100 - tol) <= amount * 100
    /\ amount * 100 <= current_amount * (100 + tol)

get_same_amount_ratio(t, H, tol) ==
    IF H = <<>> THEN Ok(RatInt(0))
    ELSE LET similar(h) == WithinTolerance(t.amount, h.amount, tol)
         IN  Ok(Rat(CountIf(H, similar), Len(H)))

amount_similarity(t, H, tol) ==
    IF H = <<>> THEN Ok(RatInt(0))
    ELSE LET similar(h) == WithinTolerance(t.amount, h.amount, tol)
         IN  Ok(Rat(CountIf(H, similar), Len(H)))

-----------------------------------------------------------------------------
(* Numbers that are not quotients of integers are kept exact by their form: *)
(* Sqrt(v) is the non-negative root of the quotient v, OverSqrt(a, v) is   *)
(* a / sqrt(v), SqrtOver(v, a) is sqrt(v) / a, OneMinusSqrt(v) is          *)
(* 1 - sqrt(v), and OverEps(a, b) is a / (b + 1e-8).                       *)

Sqrt(v) == [sqrt |-> v]
OverSqrt(a, v) == [num |-> a, sqrt |-> v]
SqrtOver(v, a) == [sqrt |-> v, den |-> a]
OneMinusSqrt(v) == [one_minus_sqrt |-> v]
OverEps(a, b) == [num |-> a, den_plus_eps |-> b]

RECURSIVE RatSum(_)
RatSum(s) == IF s = <<>> THEN RatInt(0) ELSE RatAdd(Head(s), RatSum(Tail(s)))

RatMean(s) == RatDiv(RatSum(s), RatInt(Len(s)))

\* The sample variance of a list of quotients, Len(s) >= 2.
RatVariance(s) ==
    LET mu == RatMean(s)
        dev(i) == RatSub(s[i], mu)
    IN  RatDiv(RatSum([i \in 1..Len(s) |-> RatMul(dev(i), dev(i))]), RatInt(Len(s) - 1))

\* np.percentile(a, q), method "linear": the value at position
\* q / 100 * (n - 1) of the sorted list, interpolated between its neighbours.
percentile_linear(s, q) ==
    LET o == SortInts(s)
        pos == q * (Len(s) - 1)
        lo == pos \div 100
        fr == pos % 100
    IN  IF fr = 0 THEN RatInt(o[lo + 1])
        ELSE Rat(o[lo + 1] * 100 + fr * (o[lo + 2] - o[lo + 1]), 100)

\* np.percentile(a, q, method="midpoint"): the mean of the two neighbours of
\* that position.
percentile_midpoint(s, q) ==
    LET o == SortInts(s)
        pos == q * (Len(s) - 1)
        lo == pos \div 100
        fr == pos % 100
    IN  IF fr = 0 THEN RatInt(o[lo + 1])
        ELSE Rat(o[lo + 1] + o[lo + 2], 2)

\* The elements of a finite set of integers, ascending.
RECURSIVE SortedSeqOf(_)
SortedSeqOf(S) ==
    IF S = {} THEN <<>>
    ELSE LET lo == CHOOSE x \in S : \A y \in S : x <= y
         IN  <<lo>> \o SortedSeqOf(S \ {lo})

-----------------------------------------------------------------------------
(* Analyzers on intervals *)

recurrence_interval_variance(H) ==
    IF Len(H) < 2 THEN Ok(Sqrt(RatInt(0)))
    ELSE IF ~AllDates(H) THEN Raise("TypeError")
    ELSE LET intervals == Intervals(H)
         IN  Ok(IF Len(intervals) > 1 THEN Sqrt(variance(intervals)) ELSE Sqrt(RatInt(0)))

normalized_days_difference(t, H) ==
    IF Len(H) < 2 THEN Ok(OverSqrt(RatInt(0), RatInt(1)))
    ELSE IF ~AllDates(H) THEN Raise("TypeError")
    ELSE IF ~IsDate(t.date) THEN Raise("TypeError")
    ELSE LET sorted == SortByDate(H)
             intervals == Intervals(H)
             med_interval == median(intervals)
             std_interval == IF Len(intervals) > 1 THEN variance(intervals) ELSE RatInt(0)
             days_since_last == DaysBetween(t.date, sorted[Len(sorted)].date)
         IN  IF std_interval.n = 0 THEN Ok(OverSqrt(RatInt(0), RatInt(1)))
             ELSE Ok(OverSqrt(RatSub(RatInt(days_since_last), med_interval), std_interval))

\* amount_stability_score without its "std_amt == 0" return: the division
\* by a zero standard deviation raises.
amount_stability_score_NoZeroGuard(H) ==
    LET amounts == Amounts(H)
    IN  IF Len(amounts) < 2 THEN Ok(OverSqrt(RatInt(0), RatInt(1)))
        ELSE IF variance(amounts).n = 0 THEN Raise("ZeroDivisionError")
        ELSE Ok(OverSqrt(median(amounts), variance(amounts)))

amount_stability_score(H) ==
    LET amounts == Amounts(H)
    IN  IF Len(amounts) < 2 THEN Ok(OverSqrt(RatInt(0), RatInt(1)))
        ELSE IF variance(amounts).n = 0 THEN Ok(OverSqrt(RatInt(1), RatInt(1)))
        ELSE Ok(OverSqrt(median(amounts), variance(amounts)))

amount_z_score(t, H) ==
    LET amounts == Amounts(H)
    IN  IF Len(amounts) < 2 THEN Ok(OverSqrt(RatInt(0), RatInt(1)))
        ELSE IF variance(amounts).n = 0 THEN Ok(OverSqrt(RatInt(0), RatInt(1)))
        ELSE Ok(OverSqrt(RatSub(RatInt(t.amount), median(amounts)), variance(amounts)))

\* np.polyfit(x, counts, 1)[0] for x = 0 .. k-1: the least-squares slope.
polyfit_slope(counts) ==
    LET k == Len(counts)
        sx == SumSeq([i \in 1..k |-> i - 1])
        sxx == SumSeq([i \in 1..k |-> (i - 1) * (i - 1)])
        sy == SumSeq(counts)
        sxy == SumSeq([i \in 1..k |-> (i - 1) * counts[i]])
    IN  Rat(k * sxy - sx * sy, k * sxx - sx * sx)

vendor_recurrence_trend(H) ==
    IF Len(H) < 2 THEN Ok(RatInt(0))
    ELSE IF ~AllDates(H) THEN Raise("AttributeError")
    ELSE LET key(h) == h.date.y * 12 + (h.date.m - 1)
             keys == SortedSeqOf({key(H[i]) : i \in 1..Len(H)})
             counts == [j \in 1..Len(keys) |->
                           Cardinality({i \in 1..Len(H) : key(H[i]) = keys[j]})]
         IN  IF Len(counts) < 2 THEN Ok(RatInt(0))
             ELSE LET slope == polyfit_slope(counts)
                  IN  Ok(IF slope.n > 0 THEN slope ELSE RatInt(0))

\* get_days_since_last_transaction with "t.date <= transaction.date" for its
\* "<": a transaction of the target's own date counts as the last one.
get_days_since_last_transaction_NotStrict(t, H) ==
    LET same_merchant == {i \in 1..Len(H) :
                             H[i].name = t.name /\ DateLeq(H[i].date, t.date)}
    IN  IF same_merchant = {} THEN Ok(0 - 1)
        ELSE IF ~IsDate(t.date) \/ \E i \in same_merchant : ~IsDate(H[i].date)
             THEN Raise("TypeError")
        ELSE LET last == CHOOSE i \in same_merchant :
                             \A j \in same_merchant : DateLeq(H[j].date, H[i].date)
             IN  Ok(DaysBetween(t.date, H[last].date))

get_days_since_last_transaction(t, H) ==
    LET same_merchant == {i \in 1..Len(H) :
                             H[i].name = t.name /\ DateLt(H[i].date, t.date)}
    IN  IF same_merchant = {} THEN Ok(0 - 1)
        ELSE IF ~IsDate(t.date) \/ \E i \in same_merchant : ~IsDate(H[i].date)
             THEN Raise("TypeError")
        ELSE LET last == CHOOSE i \in same_merchant :
                             \A j \in same_merchant : DateLeq(H[j].date, H[i].date)
             IN  Ok(DaysBetween(t.date, H[last].date))

\* The value of same_amount in get_transaction_intervals: base_amount is the
\* amount of the first list element, or 1 (100 cents) when that is 0, and an
\* amount counts when abs(amt - base_amount) / base_amount <= 0.05.
SameAmountAsFirst(amounts) ==
    LET base_amount == IF amounts[1] # 0 THEN amounts[1] ELSE 100
        near(amt) == IF base_amount > 0
                     THEN 20 * Abs(amt - base_amount) <= base_amount
                     ELSE TRUE
    IN  Rat(CountIf(amounts, near), Len(amounts))

\* get_transaction_intervals without the sort of its dates: the gaps are
\* those between neighbours of the list as passed.
get_transaction_intervals_Unsorted(H) ==
    IF Len(H) < 2
    THEN Ok([avg_days_between_transactions |-> RatInt(0),
             std_dev_days_between_transactions |-> Sqrt(RatInt(0)),
             monthly_recurrence |-> RatInt(0),
             same_weekday_ratio |-> RatInt(0),
             same_amount |-> RatInt(0)])
    ELSE IF ~AllDates(H) THEN Raise("TypeError")
    ELSE LET amounts == Amounts(H)
             intervals == [i \in 1..(Len(H) - 1) |->
                              toordinal(H[i + 1].date) - toordinal(H[i].date)]
             monthly(gap) == 23 <= gap /\ gap <= 37
             weekdays == [i \in 1..Len(H) |-> weekday(H[i].date)]
             count(w) == Cardinality({i \in 1..Len(H) : weekdays[i] = w})
             most_common_count == CHOOSE c \in {count(w) : w \in 0..6} :
                                      \A w \in 0..6 : count(w) <= c
         IN  Ok([avg_days_between_transactions |-> mean(intervals),
                 std_dev_days_between_transactions |->
                     IF Len(intervals) > 1 THEN Sqrt(variance(intervals))
                     ELSE Sqrt(RatInt(0)),
                 monthly_recurrence |-> Rat(CountIf(intervals, monthly), Len(intervals)),
                 same_weekday_ratio |-> Rat(most_common_count, Len(weekdays)),
                 same_amount |-> SameAmountAsFirst(amounts)])

get_transaction_intervals(H) ==
    IF Len(H) < 2
    THEN Ok([avg_days_between_transactions |-> RatInt(0),
             std_dev_days_between_transactions |-> Sqrt(RatInt(0)),
             monthly_recurrence |-> RatInt(0),
             same_weekday_ratio |-> RatInt(0),
             same_amount |-> RatInt(0)])
    ELSE IF ~AllDates(H) THEN Raise("TypeError")
    ELSE LET amounts == Amounts(H)
             intervals == Intervals(H)
             monthly(gap) == 23 <= gap /\ gap <= 37
             weekdays == [i \in 1..Len(H) |-> weekday(H[i].date)]
             count(w) == Cardinality({i \in 1..Len(H) : weekdays[i] = w})
             most_common_count == CHOOSE c \in {count(w) : w \in 0..6} :
                                      \A w \in 0..6 : count(w) <= c
         IN  Ok([avg_days_between_transactions |-> mean(intervals),
                 std_dev_days_between_transactions |->
                     IF Len(intervals) > 1 THEN Sqrt(variance(intervals))
                     ELSE Sqrt(RatInt(0)),
                 monthly_recurrence |-> Rat(CountIf(intervals, monthly), Len(intervals)),
                 same_weekday_ratio |-> Rat(most_common_count, Len(weekdays)),
                 same_amount |-> SameAmountAsFirst(amounts)])

\* np.clip of one value to [lo, hi].
Clip(x, lo, hi) == IF RatLt(x, lo) THEN lo ELSE IF RatLt(hi, x) THEN hi ELSE x

safe_interval_consistency_FiveIntervals(H) ==
    IF Len(H) < 2 THEN Ok(OneMinusSqrt(RatInt(1)))
    ELSE IF ~AllDates(H) THEN Raise("TypeError")
    ELSE LET intervals == Intervals(H)
         IN  IF Len(intervals) <= 4 THEN Ok(OneMinusSqrt(RatInt(1)))
             ELSE LET lower_bound == percentile_linear(intervals, 5)
                      upper_bound == percentile_linear(intervals, 95)
                      trimmed == [i \in 1..Len(intervals) |->
                                     Clip(RatInt(intervals[i]), lower_bound, upper_bound)]
                      m == RatMean(trimmed)
                  IN  IF m.n = 0 THEN Ok(OneMinusSqrt(RatInt(1)))
                      ELSE Ok(OneMinusSqrt(RatDiv(RatVariance(trimmed), RatMul(m, m))))

safe_interval_consistency(H) ==
    IF Len(H) < 2 THEN Ok(OneMinusSqrt(RatInt(1)))
    ELSE IF ~AllDates(H) THEN Raise("TypeError")
    ELSE LET intervals == Intervals(H)
         IN  IF Len(intervals) <= 5 THEN Ok(OneMinusSqrt(RatInt(1)))
             ELSE LET lower_bound == percentile_linear(intervals, 5)
                      upper_bound == percentile_linear(intervals, 95)
                      trimmed == [i \in 1..Len(intervals) |->
                                     Clip(RatInt(intervals[i]), lower_bound, upper_bound)]
                      m == RatMean(trimmed)
                  IN  IF m.n = 0 THEN Ok(OneMinusSqrt(RatInt(1)))
                      ELSE Ok(OneMinusSqrt(RatDiv(RatVariance(trimmed), RatMul(m, m))))

get_vendor_recurrence_score(H, total_transactions) ==
    IF total_transactions = 0 THEN Ok(RatInt(0))
    ELSE Ok(Rat(Len(H), total_transactions))

-----------------------------------------------------------------------------
(* Vendor names.  A name is a sequence of one-character strings, so that    *)
(* lower-casing, cleaning and the regular-expression searches are computed. *)

UPPERCASE == <<"A", "B", "C", "D", "E", "F", "G", "H", "I", "J", "K", "L", "M",
               "N", "O", "P", "Q", "R", "S", "T", "U", "V", "W", "X", "Y", "Z">>
LOWERCASE == <<"a", "b", "c", "d", "e", "f", "g", "h", "i", "j", "k", "l", "m",
               "n", "o", "p", "q", "r", "s", "t", "u", "v", "w", "x", "y", "z">>
DIGITS == {"0", "1", "2", "3", "4", "5", "6", "7", "8", "9"}

LOWER_OF == [c \in Range(UPPERCASE) |-> LOWERCASE[CHOOSE i \in 1..26 : UPPERCASE[i] = c]]
LETTERS == Range(UPPERCASE) \cup Range(LOWERCASE)

LowerChar(c) == IF c \in DOMAIN LOWER_OF THEN LOWER_OF[c] ELSE c

\* str.lower()
Lower(name) == [i \in 1..Len(name) |-> LowerChar(name[i])]

IsAlnum(c) == c \in LETTERS \/ c \in DIGITS
\* \w of a regular expression
IsWordChar(c) == IsAlnum(c) \/ c = "_"
\* \s of a regular expression
IsSpace(c) == c = " "

\* kw in name: kw occurs in name as a contiguous substring.
Contains(name, kw) ==
    \E i \in 1..(Len(name) - Len(kw) + 1) : SubSeq(name, i, i + Len(kw) - 1) = kw

\* \b at the gap before position p (1 <= p <= Len(name) + 1): exactly one side
\* of the gap is a word character.
WordBoundary(name, p) ==
    LET before == p > 1 /\ IsWordChar(name[p - 1])
        after == p <= Len(name) /\ IsWordChar(name[p])
    IN  before # after

\* re.search(r"\b(k1|k2|...)\b", name, re.IGNORECASE) finds a match.
\* keywords are given lower-cased, which is how IGNORECASE compares them.
SearchWords(keywords, name) ==
    LET lowered == Lower(name)
    IN  \E kw \in keywords :
            \E i \in 1..(Len(name) - Len(kw) + 1) :
                /\ SubSeq(lowered, i, i + Len(kw) - 1) = kw
                /\ WordBoundary(name, i)
                /\ WordBoundary(name, i + Len(kw))

LowerAll(keywords) == {Lower(kw) : kw \in keywords}

ALWAYS_RECURRING_VENDORS == {
    <<"g", "o", "o", "g", "l", "e", " ", "s", "t", "o", "r", "a", "g", "e">>,
    <<"n", "e", "t", "f", "l", "i", "x">>,
    <<"h", "u", "l", "u">>,
    <<"s", "p", "o", "t", "i", "f", "y">>}

get_is_always_recurring(t) == Ok(Lower(t.name) \in ALWAYS_RECURRING_VENDORS)

INSURANCE_WORDS == LowerAll({<<"i", "n", "s", "u", "r", "a", "n", "c", "e">>, <<"i", "n", "s", "u", "r">>, <<"i", "n", "s", "u", "r", "a", "n", "c">>})

get_is_insurance(t) == Ok(SearchWords(INSURANCE_WORDS, t.name))

UTILITY_WORDS == LowerAll({<<"u", "t", "i", "l", "i", "t", "y">>, <<"u", "t", "i", "l", "i", "t">>, <<"e", "n", "e", "r", "g", "y">>})

get_is_utility(t) == Ok(SearchWords(UTILITY_WORDS, t.name))

PHONE_WORDS == LowerAll({<<"a", "t", "&", "t">>, <<"t", "-", "m", "o", "b", "i", "l", "e">>, <<"v", "e", "r", "i", "z", "o", "n">>})

get_is_phone(t) == Ok(SearchWords(PHONE_WORDS, t.name))

KNOWN_RECURRING_COMPANIES == {
    <<"n", "e", "t", "f", "l", "i", "x">>,
    <<"s", "p", "o", "t", "i", "f", "y">>,
    <<"a", "m", "a", "z", "o", "n", " ", "p", "r", "i", "m", "e">>,
    <<"h", "u", "l", "u">>,
    <<"d", "i", "s", "n", "e", "y", "+">>,
    <<"y", "o", "u", "t", "u", "b", "e">>,
    <<"a", "d", "o", "b", "e">>,
    <<"m", "i", "c", "r", "o", "s", "o", "f", "t">>,
    <<"v", "e", "r", "i", "z", "o", "n">>,
    <<"a", "t", "&", "t">>,
    <<"t", "-", "m", "o", "b", "i", "l", "e">>,
    <<"c", "o", "m", "c", "a", "s", "t">>,
    <<"s", "p", "e", "c", "t", "r", "u", "m">>,
    <<"o", "n", "l", "y", "f", "a", "n", "s">>,
    <<"a", "l", "b", "e", "r", "t">>,
    <<"i", "p", "s", "y">>,
    <<"e", "x", "p", "e", "r", "i", "a", "n">>,
    <<"w", "a", "l", "m", "a", "r", "t", "+">>,
    <<"s", "i", "r", "i", "u", "s", " ", "x", "m">>,
    <<"p", "a", "n", "d", "o", "r", "a">>,
    <<"s", "e", "z", "z", "l", "e">>,
    <<"a", "p", "p", "l", "e">>,
    <<"a", "m", "a", "z", "o", "n", "+">>,
    <<"B", "E", "T", "+">>,
    <<"H", "B", "O">>,
    <<"C", "r", "e", "d", "i", "t", " ", "G", "e", "n", "i", "e">>,
    <<"a", "m", "a", "z", "o", "n", " ", "k", "i", "d", "s", "+">>,
    <<"p", "a", "r", "a", "m", "o", "u", "n", "t", "+">>,
    <<"a", "f", "t", "e", "r", "p", "a", "y">>,
    <<"c", "r", "i", "c", "u", "t">>}

UTILITY_KEYWORDS == {
    <<"e", "n", "e", "r", "g", "y">>,
    <<"p", "o", "w", "e", "r">>,
    <<"e", "l", "e", "c", "t", "r", "i", "c">>,
    <<"u", "t", "i", "l", "i", "t", "y">>,
    <<"g", "a", "s">>,
    <<"w", "a", "t", "e", "r">>,
    <<"s", "e", "w", "e", "r">>,
    <<"t", "r", "a", "s", "h">>,
    <<"i", "n", "t", "e", "r", "n", "e", "t">>,
    <<"p", "h", "o", "n", "e">>,
    <<"c", "a", "b", "l", "e">>,
    <<"w", "i", "f", "i">>,
    <<"b", "r", "o", "a", "d", "b", "a", "n", "d">>,
    <<"t", "e", "l", "e", "c", "o", "m">>,
    <<"m", "e", "m", "b", "e", "r">>,
    <<"f", "i", "t", "n", "e", "s", "s">>,
    <<"g", "y", "m">>,
    <<"i", "n", "s", "u", "r", "a", "n", "c", "e">>,
    <<"r", "e", "n", "t">>,
    <<"h", "o", "a">>,
    <<"s", "u", "b", "s", "c", "r", "i", "p", "t", "i", "o", "n">>,
    <<"m", "o", "b", "i", "l", "e">>,
    <<"p", "a", "y">>,
    <<"l", "i", "g", "h", "t">>,
    <<"t", "v">>}

\* The two tables as the compiled IGNORECASE patterns see them.
RECURRING_PATTERN == LowerAll(KNOWN_RECURRING_COMPANIES)
UTILITY_PATTERN == LowerAll(UTILITY_KEYWORDS)

RECURSIVE KeepClean(_)
KeepClean(name) ==
    IF name = <<>> THEN <<>>
    ELSE IF IsAlnum(Head(name)) \/ IsSpace(Head(name))
         THEN <<Head(name)>> \o KeepClean(Tail(name))
         ELSE KeepClean(Tail(name))

RECURSIVE LStrip(_)
LStrip(name) ==
    IF name # <<>> /\ IsSpace(Head(name)) THEN LStrip(Tail(name)) ELSE name

RECURSIVE RStrip(_)
RStrip(name) ==
    IF name # <<>> /\ IsSpace(name[Len(name)])
    THEN RStrip(SubSeq(name, 1, Len(name) - 1))
    ELSE name

\* re.sub(r"[^a-zA-Z0-9\s]", "", name).strip().lower()
clean_company_name(name) == Lower(RStrip(LStrip(KeepClean(name))))

\* detect_recurring_company without its utility tier: a name that only a
\* utility keyword matches scores by the partial matches.
detect_recurring_company_NoUtilityTier(company_name) ==
    LET cleaned_name == clean_company_name(company_name)
        is_recurring_company ==
            IF SearchWords(RECURRING_PATTERN, cleaned_name) THEN 1 ELSE 0
        is_utility_company ==
            IF SearchWords(UTILITY_PATTERN, cleaned_name) THEN 1 ELSE 0
        recurring_score ==
            IF is_recurring_company = 1 THEN 10
            ELSE IF \E kw \in KNOWN_RECURRING_COMPANIES : Contains(cleaned_name, kw)
                 THEN 7
            ELSE 0
    IN  Ok([is_recurring_company |-> is_recurring_company,
            is_utility_company |-> is_utility_company,
            recurring_score |-> Rat(recurring_score, 10)])

\* recurring_score is held in tenths: 10 is 1.0, 8 is 0.8, 7 is 0.7.
detect_recurring_company(company_name) ==
    LET cleaned_name == clean_company_name(company_name)
        is_recurring_company ==
            IF SearchWords(RECURRING_PATTERN, cleaned_name) THEN 1 ELSE 0
        is_utility_company ==
            IF SearchWords(UTILITY_PATTERN, cleaned_name) THEN 1 ELSE 0
        recurring_score ==
            IF is_recurring_company = 1 THEN 10
            ELSE IF is_utility_company = 1 THEN 8
            ELSE IF \E kw \in KNOWN_RECURRING_COMPANIES : Contains(cleaned_name, kw)
                 THEN 7
            ELSE 0
    IN  Ok([is_recurring_company |-> is_recurring_company,
            is_utility_company |-> is_utility_company,
            recurring_score |-> Rat(recurring_score, 10)])

RETAIL_KEYWORDS == {<<"a", "m", "a", "z", "o", "n">>, <<"w", "a", "l", "m", "a", "r", "t">>, <<"s", "t", "o", "r", "e">>, <<"s", "h", "o", "p">>, <<"m", "o", "t", "o", "r", "s", "p", "o", "r", "t", "s">>, <<"g", "a", "l", "l", "e", "r", "y">>}
ENTERTAINMENT_KEYWORDS == {<<"m", "o", "v", "i", "e">>, <<"t", "h", "e", "a", "t", "r", "e">>, <<"b", "e", "t">>, <<"n", "f", "l">>, <<"r", "o", "k", "u">>, <<"s", "t", "a", "r", "z">>}

merchant_category_features(name) ==
    LET cleaned == Lower(name)
    IN  Ok([is_retail |->
                IF \E kw \in RETAIL_KEYWORDS : Contains(cleaned, kw) THEN 1 ELSE 0,
            is_entertainment |->
                IF \E kw \in ENTERTAINMENT_KEYWORDS : Contains(cleaned, kw) THEN 1 ELSE 0])

-----------------------------------------------------------------------------
(* Mappings (dict): functions from feature names to values *)

EmptyMapping == [k \in {} |-> 0]

\* {**f, **g}: the keys of both, g's value where both have the key.
Merged(f, g) ==
    [k \in (DOMAIN f) \cup (DOMAIN g) |-> IF k \in DOMAIN g THEN g[k] ELSE f[k]]

RECURSIVE MergedAll(_)
MergedAll(ms) ==
    IF ms = <<>> THEN EmptyMapping
    ELSE Merged(MergedAll(SubSeq(ms, 1, Len(ms) - 1)), ms[Len(ms)])

-----------------------------------------------------------------------------
(* Composite analyzers *)

get_enhanced_features(t, H, total_transactions) ==
    IF H = <<>> THEN Ok(EmptyMapping)
    ELSE IF Len(H) >= 2 /\ ~AllDates(H) THEN Raise("TypeError")
    ELSE IF ~IsDate(t.date) THEN Raise("AttributeError")
    ELSE IF ~get_days_since_last_transaction(t, H).ok
         THEN get_days_since_last_transaction(t, H)
    ELSE IF ~AllDates(H) THEN Raise("TypeError")
    ELSE LET amounts == Amounts(H)
             intervals == Intervals(H)
             recent(h) == DaysBetween(t.date, h.date) <= 90
         IN  Ok([amt_std |-> IF Len(amounts) > 1 THEN Sqrt(variance(amounts))
                             ELSE Sqrt(RatInt(0)),
                 amt_med |-> median(amounts),
                 amt_iqr |-> RatSub(percentile_linear(amounts, 75),
                                    percentile_linear(amounts, 25)),
                 interval_std |-> IF Len(intervals) > 1 THEN Sqrt(variance(intervals))
                                  ELSE Sqrt(RatInt(0)),
                 interval_med |-> IF Len(intervals) > 0 THEN median(intervals)
                                  ELSE RatInt(0),
                 interval_consistency |-> safe_interval_consistency(H).val,
                 proporption |-> get_vendor_recurrence_score(H, total_transactions).val,
                 day_of_month |-> t.date.d,
                 days_since_last |-> get_days_since_last_transaction(t, H).val,
                 n_similar_last_90d |-> CountIf(H, recent),
                 n_transactions |-> Len(H),
                 same_amount_ratio |-> get_same_amount_ratio(t, H, 5).val])

COMMON_CYCLES == <<7, 14, 30, 90, 365>>
CYCLE_RANGE == 3

detect_common_interval_Strict(intervals) ==
    \E c \in 1..Len(COMMON_CYCLES) :
        \E i \in 1..Len(intervals) : Abs(intervals[i] - COMMON_CYCLES[c]) < CYCLE_RANGE

detect_common_interval(intervals) ==
    \E c \in 1..Len(COMMON_CYCLES) :
        \E i \in 1..Len(intervals) : Abs(intervals[i] - COMMON_CYCLES[c]) <= CYCLE_RANGE

get_transaction_stability_features(H) ==
    IF Len(H) < 2
    THEN Ok([transaction_frequency |-> RatInt(0),
             robust_interval_median |-> RatInt(0),
             robust_interval_iqr |-> RatInt(0),
             coefficient_of_variation_intervals |-> RatInt(0),
             amount_variability_ratio |-> RatInt(0),
             matches_common_cycle |-> RatInt(0),
             recurring_confidence |-> RatInt(0)])
    ELSE IF ~AllDates(H) THEN Raise("TypeError")
    ELSE LET amounts == Amounts(H)
             intervals == Intervals(H)
             robust_interval_median == median(intervals)
             iqr_intervals ==
                 IF Len(intervals) > 1
                 THEN RatSub(percentile_midpoint(intervals, 75),
                             percentile_midpoint(intervals, 25))
                 ELSE RatInt(0)
             total_days == SumSeq(intervals)
             months == IF total_days > 30 THEN Rat(total_days, 30) ELSE RatInt(1)
             robust_amount_median == median(amounts)
             iqr_amounts == RatSub(percentile_midpoint(amounts, 75),
                                   percentile_midpoint(amounts, 25))
             score(i) == detect_recurring_company(H[i].name).val.recurring_score
             best == CHOOSE i \in 1..Len(H) : \A j \in 1..Len(H) : RatLeq(score(j), score(i))
         IN  Ok([transaction_frequency |-> RatDiv(RatInt(Len(H)), months),
                 robust_interval_median |-> robust_interval_median,
                 robust_interval_iqr |-> iqr_intervals,
                 coefficient_of_variation_intervals |->
                     IF robust_interval_median.n > 0
                     THEN RatDiv(iqr_intervals, robust_interval_median)
                     ELSE RatInt(0),
                 amount_variability_ratio |->
                     IF robust_amount_median.n > 0
                     THEN RatDiv(iqr_amounts, robust_amount_median)
                     ELSE RatInt(0),
                 matches_common_cycle |->
                     IF detect_common_interval(intervals) THEN RatInt(1) ELSE RatInt(0),
                 recurring_confidence |-> score(best)])

\* all_transactions.sort(key=lambda t: t.date) in detect_subscription_pattern:
\* the caller's list after the call.
detect_subscription_pattern_list(H) == IF Len(H) < 2 THEN H ELSE SortByDate(H)

\* min(base_cycles, key=...): the cycle whose +-3 window holds the median
\* interval; every other key is inf, and min returns the first element, 7,
\* when all keys are inf.
DetectedCycle(median_interval) ==
    LET matches(c) == /\ RatLeq(RatInt(c - 3), median_interval)
                      /\ RatLeq(median_interval, RatInt(c + 3))
    IN  IF \E i \in 1..Len(COMMON_CYCLES) : matches(COMMON_CYCLES[i])
        THEN COMMON_CYCLES[CHOOSE i \in 1..Len(COMMON_CYCLES) : matches(COMMON_CYCLES[i])]
        ELSE COMMON_CYCLES[1]

detect_subscription_pattern(H) ==
    IF Len(H) < 2
    THEN Ok([subscription_score |-> RatInt(0),
             interval_consistency |-> RatInt(0),
             amount_consistency |-> RatInt(0),
             detected_cycle |-> RatInt(0)])
    ELSE IF ~AllDates(H) THEN Raise("TypeError")
    ELSE LET amounts == Amounts(SortByDate(H))
             intervals == Intervals(H)
             median_interval == median(intervals)
             detected_cycle == DetectedCycle(median_interval)
             interval_deviation_threshold == Rat(15 * detected_cycle, 100)
             close(interval) ==
                 RatLeq(RatAbs(RatSub(RatInt(interval), median_interval)),
                        interval_deviation_threshold)
             interval_consistency == Rat(CountIf(intervals, close), Len(intervals))
             median_amount == median(amounts)
             amount_deviation_threshold == RatMul(Rat(15, 100), median_amount)
             alike(amount) ==
                 RatLeq(RatAbs(RatSub(RatInt(amount), median_amount)),
                        amount_deviation_threshold)
             amount_consistency == Rat(CountIf(amounts, alike), Len(amounts))
         IN  Ok([subscription_score |->
                     RatDiv(RatAdd(interval_consistency, amount_consistency), RatInt(2)),
                 interval_consistency |-> interval_consistency,
                 amount_consistency |-> amount_consistency,
                 detected_cycle |-> RatInt(detected_cycle)])

\* min(sqrt(v) / (m + 1e-8), 1.0), kept by its form.
MinOneOverEps(v, m) == [min1_sqrt |-> v, den_plus_eps |-> m]

detect_non_recurring_pattern(H) ==
    IF Len(H) < 2
    THEN Ok([irregular_interval_score |-> MinOneOverEps(RatInt(0), RatInt(1)),
             inconsistent_amount_score |-> MinOneOverEps(RatInt(0), RatInt(1)),
             non_recurring_score |-> <<MinOneOverEps(RatInt(0), RatInt(1)),
                                       MinOneOverEps(RatInt(0), RatInt(1))>>])
    ELSE IF ~AllDates(H) THEN Raise("TypeError")
    ELSE LET amounts == Amounts(H)
             intervals == Intervals(H)
             interval_std == IF Len(intervals) > 1 THEN variance(intervals) ELSE RatInt(0)
             irregular_interval_score == MinOneOverEps(interval_std, median(intervals))
             inconsistent_amount_score == MinOneOverEps(variance(amounts), median(amounts))
         IN  Ok([irregular_interval_score |-> irregular_interval_score,
                 inconsistent_amount_score |-> inconsistent_amount_score,
                 \* the mean of the two scores, kept as the pair
                 non_recurring_score |-> <<irregular_interval_score,
                                           inconsistent_amount_score>>])

one_time_features_DistinctMonths(H) ==
    IF H # <<>> /\ ~AllDates(H) THEN Raise("AttributeError")
    ELSE IF Len(H) = 0 THEN Raise("ZeroDivisionError")
    ELSE LET months == SortedSeqOf({H[i].date.m : i \in 1..Len(H)})
             date_std == IF Len(months) >= 2 THEN variance(months) ELSE RatInt(0)
             distinct == Cardinality({H[i].amount : i \in 1..Len(H)})
         IN  Ok([varying_amounts |-> IF 10 * distinct > 7 * Len(H) THEN 1 ELSE 0,
                 \* date_std > 1.5, on the squares
                 irregular_dates |-> IF RatLt(Rat(9, 4), date_std) THEN 1 ELSE 0])

one_time_features(H) ==
    IF H # <<>> /\ ~AllDates(H) THEN Raise("AttributeError")
    ELSE IF Len(H) = 0 THEN Raise("ZeroDivisionError")
    ELSE LET months == [i \in 1..Len(H) |-> H[i].date.m]
             date_std == IF Len(months) >= 2 THEN variance(months) ELSE RatInt(0)
             distinct == Cardinality({H[i].amount : i \in 1..Len(H)})
         IN  Ok([varying_amounts |-> IF 10 * distinct > 7 * Len(H) THEN 1 ELSE 0,
                 \* date_std > 1.5, on the squares
                 irregular_dates |-> IF RatLt(Rat(9, 4), date_std) THEN 1 ELSE 0])

\* _get_intervals: the same list of sorted-date differences.
_get_intervals(H) == Intervals(H)

proportional_timing_deviation(t, H, days_flexibility) ==
    IF Len(H) < 2 THEN Ok(RatInt(0))
    ELSE IF ~AllDates(H) \/ ~IsDate(t.date) THEN Raise("TypeError")
    ELSE LET intervals == _get_intervals(H)
             median_interval == median(intervals)
             current_interval == DaysBetween(t.date, H[Len(H)].date)
             off == RatAbs(RatSub(RatInt(current_interval), median_interval))
         IN  IF RatLeq(off, RatInt(days_flexibility)) THEN Ok(RatInt(1))
             ELSE IF median_interval.n = 0 THEN Ok(RatInt(0))
             ELSE Ok(RatSub(RatInt(1), RatDiv(off, median_interval)))

\* The square of np.std(amounts, ddof=0): the population variance.
population_variance(s) ==
    LET k == Len(s)
        sq == SumSeq([i \in 1..k |-> s[i] * s[i]])
        su == SumSeq(s)
    IN  Rat(k * sq - su * su, k * k)

amount_coefficient_of_variation(H) ==
    LET amounts == Amounts(H)
    IN  IF Len(amounts) < 2 THEN Ok(SqrtOver(RatInt(0), RatInt(1)))
        ELSE IF mean(amounts).n = 0 THEN Ok(SqrtOver(RatInt(0), RatInt(1)))
        ELSE Ok(SqrtOver(population_variance(amounts), mean(amounts)))

-----------------------------------------------------------------------------
(* Spending cycles and frequency *)

\* The year of the day with ordinal o.
YearOfOrdinal(o) ==
    CHOOSE y \in (o \div 366)..(o \div 365 + 1) :
        days_before_year(y) < o /\ o <= days_before_year(y + 1)

\* date.isocalendar()[1] of the day with ordinal o: the week of the year that
\* holds the Thursday of o's Monday-to-Sunday week.
IsoWeek(o) ==
    LET thursday == o - ((o + 6) % 7) + 3
        year == YearOfOrdinal(thursday)
    IN  (thursday - days_before_year(year) - 1) \div 7 + 1

BucketVariation_Population(amounts, bucket) ==
    LET ks == SortedSeqOf({bucket[i] : i \in 1..Len(amounts)})
        members(k) == {i \in 1..Len(amounts) : bucket[i] = k}
        total(k) == SumSeq([j \in 1..Len(amounts) |->
                               IF bucket[j] = k THEN amounts[j] ELSE 0])
        avgs == [j \in 1..Len(ks) |-> Rat(total(ks[j]), Cardinality(members(ks[j])))]
    IN  IF Len(avgs) < 2 THEN SqrtOver(RatInt(0), RatInt(1))
        ELSE IF RatMean(avgs).n = 0 THEN SqrtOver(RatInt(0), RatInt(1))
        ELSE SqrtOver(RatMul(RatVariance(avgs), Rat(Len(avgs) - 1, Len(avgs))), RatMean(avgs))

\* The coefficient of variation of the per-bucket averages of the amounts,
\* where bucket[i] is the bucket of the i-th amount: stdev(avgs) / mean(avgs).
BucketVariation(amounts, bucket) ==
    LET ks == SortedSeqOf({bucket[i] : i \in 1..Len(amounts)})
        members(k) == {i \in 1..Len(amounts) : bucket[i] = k}
        total(k) == SumSeq([j \in 1..Len(amounts) |->
                               IF bucket[j] = k THEN amounts[j] ELSE 0])
        avgs == [j \in 1..Len(ks) |-> Rat(total(ks[j]), Cardinality(members(ks[j])))]
    IN  IF Len(avgs) < 2 THEN SqrtOver(RatInt(0), RatInt(1))
        ELSE IF RatMean(avgs).n = 0 THEN SqrtOver(RatInt(0), RatInt(1))
        ELSE SqrtOver(RatVariance(avgs), RatMean(avgs))

weekly_spending_cycle(H) ==
    IF H = <<>> THEN Ok(SqrtOver(RatInt(0), RatInt(1)))
    ELSE IF ~AllDates(H) THEN Raise("AttributeError")
    ELSE LET week_number == [i \in 1..Len(H) |->
                                IsoWeek(toordinal(H[i].date) - (weekday(H[i].date) % 3))]
         IN  Ok(BucketVariation(Amounts(H), week_number))

seasonal_spending_cycle(t, H) ==
    LET vendor_transactions == SelectSeq(H, LAMBDA h : h.name = t.name)
    IN  IF vendor_transactions = <<>> THEN Ok(SqrtOver(RatInt(0), RatInt(1)))
        ELSE IF ~AllDates(vendor_transactions) THEN Raise("AttributeError")
        ELSE LET month == [i \in 1..Len(vendor_transactions) |->
                              vendor_transactions[i].date.m]
             IN  Ok(BucketVariation(Amounts(vendor_transactions), month))

frequency_features(H) ==
    IF H = <<>>
    THEN Ok([transactions_per_month |-> OverEps(RatInt(0), RatInt(1)),
             transactions_per_week |-> OverEps(RatInt(0), RatInt(1))])
    ELSE IF ~AllDates(H) THEN Raise("TypeError")
    ELSE LET sorted == SortByDate(H)
             time_span_days == DaysBetween(sorted[Len(H)].date, sorted[1].date)
         IN  Ok([transactions_per_month |->
                     OverEps(RatInt(Len(H)), Rat(time_span_days, 30)),
                 transactions_per_week |->
                     OverEps(RatInt(Len(H)), Rat(time_span_days, 7))])

-----------------------------------------------------------------------------
(* The aggregator *)

\* The i-th call of get_features, in the order it makes them.  The first nine
\* are the assignments before the dict display; detect_subscription_pattern
\* is the fifth, and the calls after it see the list S it has sorted.
get_features_call(t, H, i) ==
    LET S == detect_subscription_pattern_list(H)
    IN  CASE i = 1 -> get_transaction_intervals(H)
          [] i = 2 -> get_enhanced_features(t, H, Len(H))
          [] i = 3 -> get_transaction_stability_features(H)
          [] i = 4 -> detect_recurring_company(t.name)
          [] i = 5 -> detect_subscription_pattern(H)
          [] i = 6 -> detect_non_recurring_pattern(S)
          [] i = 7 -> one_time_features(S)
          [] i = 8 -> frequency_features(S)
          [] i = 9 -> merchant_category_features(t.name)
          [] i = 10 -> amount_similarity(t, S, 5)
          [] i = 11 -> get_percent_transactions_same_amount(t, S)
          [] i = 12 -> normalized_days_difference(t, S)
          [] i = 13 -> amount_stability_score(S)
          [] i = 14 -> amount_z_score(t, S)
          [] i = 15 -> weekly_spending_cycle(S)
          [] i = 16 -> vendor_recurrence_trend(S)
          [] i = 17 -> seasonal_spending_cycle(t, S)
          [] i = 18 -> recurrence_interval_variance(S)
          [] i = 19 -> get_same_amount_ratio(t, S, 5)
          [] i = 20 -> amount_coefficient_of_variation(S)
          [] i = 21 -> proportional_timing_deviation(t, S, 7)
          [] i = 22 -> get_ends_in_99(t)
          [] i = 23 -> get_n_transactions_same_day(t, S, 0)
          [] i = 24 -> get_pct_transactions_same_day(t, S, 0)
          [] i = 25 -> get_n_transactions_same_day(t, S, 1)
          [] i = 26 -> get_n_transactions_same_day(t, S, 2)
          [] i = 27 -> get_n_transactions_days_apart(t, S, 14, 0)
          [] i = 28 -> get_n_transactions_days_apart(t, S, 14, 1)
          [] i = 29 -> get_n_transactions_days_apart(t, S, 7, 0)
          [] i = 30 -> get_n_transactions_days_apart(t, S, 7, 1)
          [] i = 31 -> get_is_insurance(t)
          [] i = 32 -> get_is_utility(t)
          [] i = 33 -> get_is_phone(t)
          [] i = 34 -> get_is_always_recurring(t)

N_CALLS == 34

\* The dict display of get_features over the values of its calls c: the
\* entries in the order written, a later entry replacing an earlier one of
\* the same name.
get_features_mapping(t, c) ==
    MergedAll(<<
        [likely_same_amount |-> c[10].val,
         percent_transactions_same_amount |-> c[11].val,
         normalized_days_difference |-> c[12].val,
         amount_stability_score |-> c[13].val,
         amount_z_score |-> c[14].val],
        "weekly_spendings " :> c[15].val,
        [vendor_recurrence_trend |-> c[16].val,
         seasonal_spending_cycle |-> c[17].val,
         recurrence_interval_variance |-> c[18].val],
        c[8].val,
        c[6].val,
        c[1].val,
        [amount_ratio |-> c[19].val,
         amount_coefficient_of_variation |-> c[20].val,
         proportional_timing_deviation |-> c[21].val],
        c[4].val,
        c[9].val,
        c[7].val,
        c[5].val,
        c[2].val,
        c[3].val,
        [ends_in_99 |-> c[22].val,
         amount |-> t.amount,
         same_day_exact |-> c[23].val,
         pct_transactions_same_day |-> c[24].val,
         same_day_off_by_1 |-> c[25].val,
         same_day_off_by_2 |-> c[26].val],
        "14_days_apart_exact" :> c[27].val,
        "14_days_apart_off_by_1" :> c[28].val,
        "7_days_apart_exact" :> c[29].val,
        "7_days_apart_off_by_1" :> c[30].val,
        [is_insurance |-> c[31].val,
         is_utility |-> c[32].val,
         is_phone |-> c[33].val,
         is_always_recurring |-> c[34].val]>>)

\* get_features from its i-th call on: the first call that raises ends it;
\* when none does, the dict display is returned.
RECURSIVE get_features_from(_, _, _)
get_features_from(t, H, i) ==
    IF i > N_CALLS
    THEN Ok(get_features_mapping(t, [k \in 1..N_CALLS |-> get_features_call(t, H, k)]))
    ELSE LET r == get_features_call(t, H, i)
         IN  IF ~r.ok THEN r ELSE get_features_from(t, H, i + 1)

get_features(t, H) == get_features_from(t, H, 1)

\* The caller's list after get_features: sorted once detect_subscription_pattern
\* has been reached, that is when none of the four calls before it raised.
get_features_list(t, H) ==
    IF \A i \in 1..4 : get_features_call(t, H, i).ok
    THEN detect_subscription_pattern_list(H)
    ELSE H

-----------------------------------------------------------------------------
(* Calls.  A call is the tuple of the analyzer's name and its arguments    *)
(* other than the transaction and the history.                             *)

\* The value a call returns, or what it raises, on target t and list H.
Apply(c, t, H) ==
    CASE c[1] = "get_is_always_recurring" -> get_is_always_recurring(t)
      [] c[1] = "get_is_insurance" -> get_is_insurance(t)
      [] c[1] = "get_is_utility" -> get_is_utility(t)
      [] c[1] = "get_is_phone" -> get_is_phone(t)
      [] c[1] = "get_n_transactions_days_apart" ->
             get_n_transactions_days_apart(t, H, c[2], c[3])
      [] c[1] = "get_n_transactions_same_day" -> get_n_transactions_same_day(t, H, c[2])
      [] c[1] = "get_pct_transactions_same_day" ->
             get_pct_transactions_same_day(t, H, c[2])
      [] c[1] = "get_ends_in_99" -> get_ends_in_99(t)
      [] c[1] = "get_n_transactions_same_amount" -> get_n_transactions_same_amount(t, H)
      [] c[1] = "get_percent_transactions_same_amount" ->
             get_percent_transactions_same_amount(t, H)
      [] c[1] = "frequency_features" -> frequency_features(H)
      [] c[1] = "recurrence_interval_variance" -> recurrence_interval_variance(H)
      [] c[1] = "normalized_days_difference" -> normalized_days_difference(t, H)
      [] c[1] = "amount_stability_score" -> amount_stability_score(H)
      [] c[1] = "amount_z_score" -> amount_z_score(t, H)
      [] c[1] = "vendor_recurrence_trend" -> vendor_recurrence_trend(H)
      [] c[1] = "weekly_spending_cycle" -> weekly_spending_cycle(H)
      [] c[1] = "seasonal_spending_cycle" -> seasonal_spending_cycle(t, H)
      [] c[1] = "get_days_since_last_transaction" ->
             get_days_since_last_transaction(t, H)
      [] c[1] = "get_same_amount_ratio" -> get_same_amount_ratio(t, H, c[2])
      [] c[1] = "get_transaction_intervals" -> get_transaction_intervals(H)
      [] c[1] = "safe_interval_consistency" -> safe_interval_consistency(H)
      [] c[1] = "get_vendor_recurrence_score" -> get_vendor_recurrence_score(H, c[2])
      [] c[1] = "get_enhanced_features" -> get_enhanced_features(t, H, c[2])
      [] c[1] = "get_transaction_stability_features" ->
             get_transaction_stability_features(H)
      [] c[1] = "detect_recurring_company" -> detect_recurring_company(t.name)
      [] c[1] = "detect_subscription_pattern" -> detect_subscription_pattern(H)
      [] c[1] = "detect_non_recurring_pattern" -> detect_non_recurring_pattern(H)
      [] c[1] = "one_time_features" -> one_time_features(H)
      [] c[1] = "merchant_category_features" -> merchant_category_features(t.name)
      [] c[1] = "proportional_timing_deviation" ->
             proportional_timing_deviation(t, H, c[2])
      [] c[1] = "amount_similarity" -> amount_similarity(t, H, c[2])
      [] c[1] = "amount_coefficient_of_variation" -> amount_coefficient_of_variation(H)
      [] c[1] = "get_features" -> get_features(t, H)

\* The caller's list after the call: only detect_subscription_pattern, and
\* get_features through it, write to the list they are given.
ListAfter(c, t, H) ==
    IF c[1] = "detect_subscription_pattern" THEN detect_subscription_pattern_list(H)
    ELSE IF c[1] = "get_features" THEN get_features_list(t, H)
    ELSE H

\* The caller makes call c on (transaction, history).
Do(c) ==
    /\ call' = c
    /\ result' = Apply(c, transaction, history)
    /\ history' = ListAfter(c, transaction, history)
    /\ UNCHANGED <<given, transaction>>

-----------------------------------------------------------------------------
(* Inputs *)

NETFLIX == <<"N", "e", "t", "f", "l", "i", "x">>
VENDOR1 == <<"v", "e", "n", "d", "o", "r", "1">>

Date(kind, y, m, d) == [kind |-> kind, y |-> y, m |-> m, d |-> d]
Tx(id, name, amount, date) == [id |-> id, name |-> name, amount |-> amount, date |-> date]

KINDS == {"date", "str"}

\* The transactions histories are drawn from, all with dates of one kind.
Pool(kind) ==
    {Tx(1, NETFLIX, 999, Date(kind, 2024, 1, 2)),
     Tx(2, NETFLIX, 999, Date(kind, 2024, 2, 1)),
     Tx(3, NETFLIX, 1299, Date(kind, 2024, 3, 3)),
     Tx(4, VENDOR1, 250, Date(kind, 2024, 1, 16))}

NewTx(kind) == Tx(5, NETFLIX, 999, Date(kind, 2024, 4, 12))

Targets(kind) == {Tx(1, NETFLIX, 999, Date(kind, 2024, 1, 2)), NewTx(kind)}

\* The lists of at most n distinct transactions of S, in every order.
ListsOf(S, n) ==
    UNION {{s \in [1..k -> S] : \A i, j \in 1..k : s[i] = s[j] => i = j} : k \in 0..n}

\* The arguments the caller passes.
CYCLE_ARGS == {7, 14}
OFF_ARGS == {0, 1, 2}
TOLERANCES == {0, 5}
FLEXIBILITIES == {0, 7}
TOTALS == {0, 1000}

-----------------------------------------------------------------------------
(* The caller: any analyzer, any number of times, on one list *)

Init ==
    \E kind \in KINDS :
        /\ history \in ListsOf(Pool(kind), MaxLen)
        /\ given = history
        /\ transaction \in Targets(kind)
        /\ call = <<"none">>
        /\ result = Ok(0)

GetIsAlwaysRecurring == Do(<<"get_is_always_recurring">>)
GetIsInsurance == Do(<<"get_is_insurance">>)
GetIsUtility == Do(<<"get_is_utility">>)
GetIsPhone == Do(<<"get_is_phone">>)
GetNTransactionsDaysApart ==
    \E n \in CYCLE_ARGS, off \in 0..MaxOff :
        Do(<<"get_n_transactions_days_apart", n, off>>)
GetNTransactionsSameDay ==
    \E off \in OFF_ARGS : Do(<<"get_n_transactions_same_day", off>>)
GetPctTransactionsSameDay ==
    \E off \in OFF_ARGS : Do(<<"get_pct_transactions_same_day", off>>)
GetEndsIn99 == Do(<<"get_ends_in_99">>)
GetNTransactionsSameAmount == Do(<<"get_n_transactions_same_amount">>)
GetPercentTransactionsSameAmount == Do(<<"get_percent_transactions_same_amount">>)
FrequencyFeatures == Do(<<"frequency_features">>)
RecurrenceIntervalVariance == Do(<<"recurrence_interval_variance">>)
NormalizedDaysDifference == Do(<<"normalized_days_difference">>)
AmountStabilityScore == Do(<<"amount_stability_score">>)
AmountZScore == Do(<<"amount_z_score">>)
VendorRecurrenceTrend == Do(<<"vendor_recurrence_trend">>)
WeeklySpendingCycle == Do(<<"weekly_spending_cycle">>)
SeasonalSpendingCycle == Do(<<"seasonal_spending_cycle">>)
GetDaysSinceLastTransaction == Do(<<"get_days_since_last_transaction">>)
GetSameAmountRatio == \E tol \in TOLERANCES : Do(<<"get_same_amount_ratio", tol>>)
GetTransactionIntervals == Do(<<"get_transaction_intervals">>)
SafeIntervalConsistency == Do(<<"safe_interval_consistency">>)
GetVendorRecurrenceScore ==
    \E total \in TOTALS : Do(<<"get_vendor_recurrence_score", total>>)
GetEnhancedFeatures == \E total \in TOTALS : Do(<<"get_enhanced_features", total>>)
GetTransactionStabilityFeatures == Do(<<"get_transaction_stability_features">>)
DetectRecurringCompany == Do(<<"detect_recurring_company">>)
DetectSubscriptionPattern == Do(<<"detect_subscription_pattern">>)
DetectNonRecurringPattern == Do(<<"detect_non_recurring_pattern">>)
OneTimeFeatures == Do(<<"one_time_features">>)
MerchantCategoryFeatures == Do(<<"merchant_category_features">>)
ProportionalTimingDeviation ==
    \E flex \in FLEXIBILITIES : Do(<<"proportional_timing_deviation", flex>>)
AmountSimilarity == \E tol \in TOLERANCES : Do(<<"amount_similarity", tol>>)
AmountCoefficientOfVariation == Do(<<"amount_coefficient_of_variation">>)
GetFeatures == Do(<<"get_features">>)

Next ==
    \/ GetIsAlwaysRecurring
    \/ GetIsInsurance
    \/ GetIsUtility
    \/ GetIsPhone
    \/ GetNTransactionsDaysApart
    \/ GetNTransactionsSameDay
    \/ GetPctTransactionsSameDay
    \/ GetEndsIn99
    \/ GetNTransactionsSameAmount
    \/ GetPercentTransactionsSameAmount
    \/ FrequencyFeatures
    \/ RecurrenceIntervalVariance
    \/ NormalizedDaysDifference
    \/ AmountStabilityScore
    \/ AmountZScore
    \/ VendorRecurrenceTrend
    \/ WeeklySpendingCycle
    \/ SeasonalSpendingCycle
    \/ GetDaysSinceLastTransaction
    \/ GetSameAmountRatio
    \/ GetTransactionIntervals
    \/ SafeIntervalConsistency
    \/ GetVendorRecurrenceScore
    \/ GetEnhancedFeatures
    \/ GetTransactionStabilityFeatures
    \/ DetectRecurringCompany
    \/ DetectSubscriptionPattern
    \/ DetectNonRecurringPattern
    \/ OneTimeFeatures
    \/ MerchantCategoryFeatures
    \/ ProportionalTimingDeviation
    \/ AmountSimilarity
    \/ AmountCoefficientOfVariation
    \/ GetFeatures

Spec == Init /\ [][Next]_vars

-----------------------------------------------------------------------------
(* get_n_transactions_days_apart on the dates of its test, every sub-list  *)
(* of them, every one of them as the target                                 *)

NAME1 == <<"n", "a", "m", "e", "1">>

\* The list of test_get_n_transactions_days_apart, and one date more, six
\* weeks after the first.
DAYS_APART_TEST ==
    <<Tx(1, NAME1, 299, Date("str", 2024, 1, 1)),
      Tx(2, NAME1, 299, Date("str", 2024, 1, 2)),
      Tx(3, NAME1, 299, Date("str", 2024, 1, 14)),
      Tx(4, NAME1, 299, Date("str", 2024, 1, 15)),
      Tx(4, NAME1, 299, Date("str", 2024, 1, 16)),
      Tx(4, NAME1, 299, Date("str", 2024, 1, 29)),
      Tx(4, NAME1, 299, Date("str", 2024, 1, 31))>>

DAYS_APART_DATES == DAYS_APART_TEST \o <<Tx(5, NAME1, 299, Date("str", 2024, 2, 12))>>

\* The elements of s at the positions in S, in their order in s.
SubList(s, S) == LET idx == SortedSeqOf(S) IN [i \in 1..Len(idx) |-> s[idx[i]]]

InitDaysApart ==
    /\ history \in {SubList(DAYS_APART_DATES, S) : S \in SUBSET (1..Len(DAYS_APART_DATES))}
    /\ given = history
    /\ transaction \in Range(DAYS_APART_DATES)
    /\ call = <<"none">>
    /\ result = Ok(0)

SpecDaysApart == InitDaysApart /\ [][GetNTransactionsDaysApart]_vars

-----------------------------------------------------------------------------
(* The tolerant same-amount ratios on amounts of either sign *)

AMOUNTS == {0 - 1000, 0 - 950, 0, 50, 950, 1000, 1050}

AmountTx(i, amount) == Tx(i, VENDOR1, amount, Date("date", 2024, 1, i))

InitTolerance ==
    /\ \E k \in 0..MaxAmountLen :
           \E amounts \in [1..k -> AMOUNTS] :
               history = [i \in 1..k |-> AmountTx(i, amounts[i])]
    /\ given = history
    /\ \E amount \in AMOUNTS : transaction = AmountTx(MaxAmountLen + 1, amount)
    /\ call = <<"none">>
    /\ result = Ok(0)

NextTolerance == GetSameAmountRatio \/ AmountSimilarity

SpecTolerance == InitTolerance /\ [][NextTolerance]_vars

-----------------------------------------------------------------------------
(* get_ends_in_99 on every amount of whole cents up to MaxCents, and on the *)
(* amounts of its test                                                      *)

ENDS_IN_99_TEST == {299, 10000, 10050, 20000, 199999}

InitEndsIn99 ==
    /\ history = <<>>
    /\ given = history
    /\ \E cents \in (0..MaxCents) \cup ENDS_IN_99_TEST :
           transaction = Tx(1, NAME1, cents, Date("str", 2024, 1, 1))
    /\ call = <<"none">>
    /\ result = Ok(0)

SpecEndsIn99 == InitEndsIn99 /\ [][GetEndsIn99]_vars

-----------------------------------------------------------------------------
(* The analyzers of the gaps between dates, on histories whose gaps fall   *)
(* inside and outside the windows of the common cycles                     *)

\* Dates 0, 0, 7, 30, 60 and 126 days after 2024-01-01.
GAP_POOL ==
    {Tx(1, NETFLIX, 1000, Date("date", 2024, 1, 1)),
     Tx(2, NETFLIX, 1000, Date("date", 2024, 1, 1)),
     Tx(3, NETFLIX, 1020, Date("date", 2024, 1, 8)),
     Tx(4, NETFLIX, 980, Date("date", 2024, 1, 31)),
     Tx(5, NETFLIX, 2000, Date("date", 2024, 3, 1)),
     Tx(6, NETFLIX, 1000, Date("date", 2024, 5, 6))}

GAP_TARGETS ==
    {Tx(3, NETFLIX, 1020, Date("date", 2024, 1, 8)),
     Tx(7, NETFLIX, 1000, Date("date", 2024, 6, 5))}

InitIntervals ==
    /\ history \in ListsOf(GAP_POOL, MaxLen)
    /\ given = history
    /\ transaction \in GAP_TARGETS
    /\ call = <<"none">>
    /\ result = Ok(0)

NextIntervals ==
    \/ DetectSubscriptionPattern
    \/ ProportionalTimingDeviation
    \/ GetTransactionIntervals

SpecIntervals == InitIntervals /\ [][NextIntervals]_vars

-----------------------------------------------------------------------------
(* detect_recurring_company on names put together from a prefix, a vendor  *)
(* word and a suffix                                                        *)

NAME_PREFIXES == {<<>>, <<" ">>, <<"x">>, <<"M", "y", " ">>}
NAME_WORDS ==
    {<<"N", "e", "t", "f", "l", "i", "x">>,
     <<"H", "B", "O">>,
     <<"h", "u", "l", "u">>,
     <<"A", "m", "a", "z", "o", "n", " ", "P", "r", "i", "m", "e">>,
     <<"D", "i", "s", "n", "e", "y">>,
     <<"P", "o", "w", "e", "r">>,
     <<"g", "a", "s">>,
     <<"D", "i", "n", "e", "r">>}
NAME_SUFFIXES == {<<>>, <<" ", "I", "n", "c", ".">>, <<"x">>, <<"+">>}

NETFLIX_INC == <<"N", "e", "t", "f", "l", "i", "x", " ", "I", "n", "c", ".">>

COMPANY_NAMES == {p \o w \o x : p \in NAME_PREFIXES, w \in NAME_WORDS, x \in NAME_SUFFIXES}

InitCompany ==
    /\ history = <<>>
    /\ given = history
    /\ \E name \in COMPANY_NAMES : transaction = Tx(1, name, 999, Date("date", 2024, 1, 2))
    /\ call = <<"none">>
    /\ result = Ok(0)

SpecCompany == InitCompany /\ [][DetectRecurringCompany]_vars

-----------------------------------------------------------------------------
(* get_days_since_last_transaction with targets before, among and after    *)
(* the dates of the history, of either vendor                               *)

DAYS_SINCE_TARGETS ==
    Pool("date") \cup {NewTx("date"), Tx(6, VENDOR1, 250, Date("date", 2024, 2, 1))}

InitDaysSince ==
    /\ history \in ListsOf(Pool("date"), MaxLen)
    /\ given = history
    /\ transaction \in DAYS_SINCE_TARGETS
    /\ call = <<"none">>
    /\ result = Ok(0)

SpecDaysSince == InitDaysSince /\ [][GetDaysSinceLastTransaction]_vars

-----------------------------------------------------------------------------
(* The analyzers of the amounts, on amounts of either sign and on the list *)
(* of the same-amount test                                                  *)

\* The transactions of the fixture of test_get_percent_transactions_same_amount.
SAME_AMOUNT_TEST ==
    <<Tx(1, VENDOR1, 10000, Date("date", 2024, 1, 2)),
      Tx(2, VENDOR1, 10000, Date("date", 2024, 1, 3)),
      Tx(3, VENDOR1, 20000, Date("date", 2024, 1, 4))>>

InitAmounts ==
    /\ \/ /\ \E k \in 0..MaxAmountLen :
                 \E amounts \in [1..k -> AMOUNTS] :
                     history = [i \in 1..k |-> AmountTx(i, amounts[i])]
          /\ \E amount \in AMOUNTS : transaction = AmountTx(MaxAmountLen + 1, amount)
       \/ /\ history = SAME_AMOUNT_TEST
          /\ transaction \in Range(SAME_AMOUNT_TEST)
    /\ given = history
    /\ call = <<"none">>
    /\ result = Ok(0)

NextAmounts ==
    \/ AmountStabilityScore
    \/ GetNTransactionsSameAmount
    \/ GetPercentTransactionsSameAmount
    \/ GetTransactionIntervals

SpecAmounts == InitAmounts /\ [][NextAmounts]_vars

-----------------------------------------------------------------------------
(* The day-of-month analyzers on the dates of their test and two dates at  *)
(* a month end                                                              *)

SAME_DAY_POOL ==
    {Tx(1, NAME1, 10000, Date("str", 2024, 1, 1)),
     Tx(2, NAME1, 10000, Date("str", 2024, 1, 1)),
     Tx(3, NAME1, 20000, Date("str", 2024, 1, 2)),
     Tx(4, NAME1, 299, Date("str", 2024, 1, 3)),
     Tx(5, NAME1, 299, Date("str", 2024, 1, 31)),
     Tx(6, NAME1, 299, Date("str", 2024, 3, 30))}

InitSameDay ==
    /\ history \in ListsOf(SAME_DAY_POOL, MaxLen)
    /\ given = history
    /\ transaction \in SAME_DAY_POOL
    /\ call = <<"none">>
    /\ result = Ok(0)

NextSameDay == GetNTransactionsSameDay \/ GetPctTransactionsSameDay

SpecSameDay == InitSameDay /\ [][NextSameDay]_vars

-----------------------------------------------------------------------------
(* The non-recurring scores on histories with gaps of many lengths and on   *)
(* histories with amounts of either sign                                    *)

InitNonRecurring == InitIntervals \/ InitTolerance

SpecNonRecurring == InitNonRecurring /\ [][DetectNonRecurringPattern]_vars

-----------------------------------------------------------------------------
(* The one-time features on histories in which a month and an amount may   *)
(* repeat                                                                   *)

VENDOR_OT == <<"v", "e", "n", "d", "o", "r", "O", "T">>

ONE_TIME_MONTHS == {1, 4, 5}

ONE_TIME_AMOUNTS == {10000, 15000}

InitOneTime ==
    /\ \E k \in 0..MaxMonthsLen :
           \E months \in [1..k -> ONE_TIME_MONTHS] :
               \E amounts \in [1..k -> ONE_TIME_AMOUNTS] :
                   history = [i \in 1..k |->
                                 Tx(i, VENDOR_OT, amounts[i], Date("date", 2023, months[i], 10))]
    /\ given = history
    /\ transaction = Tx(MaxMonthsLen + 1, VENDOR_OT, 10000, Date("date", 2023, 6, 10))
    /\ call = <<"none">>
    /\ result = Ok(0)

SpecOneTime == InitOneTime /\ [][OneTimeFeatures]_vars

-----------------------------------------------------------------------------
(* The stability features on histories whose gaps lie at the edges of the  *)
(* common cycles: 3 and 4, 11, 14 and 18, 33 and 368 days                   *)

STABILITY_POOL ==
    {Tx(1, NETFLIX, 999, Date("date", 2024, 1, 1)),
     Tx(2, NETFLIX, 999, Date("date", 2024, 1, 5)),
     Tx(3, NETFLIX, 1299, Date("date", 2024, 1, 8)),
     Tx(4, VENDOR1, 250, Date("date", 2024, 1, 19)),
     Tx(5, VENDOR1, 250, Date("date", 2024, 2, 21)),
     Tx(6, VENDOR1, 999, Date("date", 2025, 1, 3))}

InitStability ==
    /\ history \in ListsOf(STABILITY_POOL, MaxLen)
    /\ given = history
    /\ transaction \in STABILITY_POOL
    /\ call = <<"none">>
    /\ result = Ok(0)

SpecStability == InitStability /\ [][GetTransactionStabilityFeatures]_vars

-----------------------------------------------------------------------------
(* The spending cycles on histories that put two years in one week number  *)
(* and in one month, and whose bucket averages may sum to zero              *)

SPENDING_POOL ==
    {Tx(1, NETFLIX, 500, Date("date", 2023, 1, 2)),
     Tx(2, NETFLIX, 550, Date("date", 2023, 1, 9)),
     Tx(3, NETFLIX, 700, Date("date", 2024, 1, 6)),
     Tx(4, NETFLIX, 100, Date("date", 2023, 2, 1)),
     Tx(5, VENDOR1, 250, Date("date", 2023, 1, 3)),
     Tx(6, NETFLIX, 0 - 550, Date("date", 2024, 12, 30))}

InitSpending ==
    /\ history \in ListsOf(SPENDING_POOL, MaxLen)
    /\ given = history
    /\ transaction \in SPENDING_POOL
    /\ call = <<"none">>
    /\ result = Ok(0)

NextSpending == WeeklySpendingCycle \/ SeasonalSpendingCycle

SpecSpending == InitSpending /\ [][NextSpending]_vars

-----------------------------------------------------------------------------
(* The interval consistency on histories of up to MaxGaps + 1 transactions *)
(* whose neighbouring dates are 0, 1 or 5 days apart, in ascending or in    *)
(* descending order                                                         *)

VENDOR_G == <<"v", "e", "n", "d", "o", "r", "G">>

GAP_DAYS == {0, 1, 5}

\* datetime.date(2023, 1, 1) + datetime.timedelta(days=n), counted on from
\* the first day of month m.
RECURSIVE DaysAfterMonthStart(_, _)
DaysAfterMonthStart(m, n) ==
    IF n < days_in_month(2023, m) THEN Date("date", 2023, m, n + 1)
    ELSE DaysAfterMonthStart(m + 1, n - days_in_month(2023, m))

DaysAfterNewYear(n) == DaysAfterMonthStart(1, n)

InitConsistency ==
    /\ \E n \in 0..(MaxGaps + 1) :
           \E gaps \in [1..(n - 1) -> GAP_DAYS] :
               \E descending \in BOOLEAN :
                   LET offset(i) == SumSeq([j \in 1..(i - 1) |-> gaps[j]])
                       place(i) == IF descending THEN n + 1 - i ELSE i
                   IN  history = [i \in 1..n |->
                                     Tx(place(i), VENDOR_G, 10000,
                                        DaysAfterNewYear(offset(place(i))))]
    /\ given = history
    /\ transaction = Tx(MaxGaps + 2, VENDOR_G, 10000, Date("date", 2023, 12, 1))
    /\ call = <<"none">>
    /\ result = Ok(0)

SpecConsistency == InitConsistency /\ [][SafeIntervalConsistency]_vars

-----------------------------------------------------------------------------
(* The company detection on the entries of its own table, and the           *)
(* stability features on a history of two that holds a transaction so named *)

DINER == <<"D", "i", "n", "e", "r">>

InitKnownCompany ==
    /\ \E k \in KNOWN_RECURRING_COMPANIES, diner \in BOOLEAN, first \in BOOLEAN :
           LET other == IF diner THEN DINER ELSE k IN
           /\ transaction = Tx(1, k, 999, Date("date", 2024, 1, 2))
           /\ history = IF first
                        THEN <<transaction, Tx(2, other, 999, Date("date", 2024, 2, 1))>>
                        ELSE <<Tx(2, other, 999, Date("date", 2024, 2, 1)), transaction>>
    /\ given = history
    /\ call = <<"none">>
    /\ result = Ok(0)

NextKnownCompany == DetectRecurringCompany \/ GetTransactionStabilityFeatures

SpecKnownCompany == InitKnownCompany /\ [][NextKnownCompany]_vars

-----------------------------------------------------------------------------
(* The enhanced features on targets dated before, among and after the      *)
(* dates of the history                                                     *)

SpecEnhanced == InitDaysSince /\ [][GetEnhancedFeatures]_vars

-----------------------------------------------------------------------------
(* Properties *)

\* Every ordering of the list H.
Orderings(H) ==
    {[i \in 1..Len(H) |-> H[p[i]]] :
        p \in {q \in [1..Len(H) -> 1..Len(H)] : \A i, j \in 1..Len(H) : q[i] = q[j] => i = j}}

\* C1: after any sequence of analyzer calls made on the same list, an
\* analyzer called on (transaction, list) returns what it would have returned
\* had it been the first call on the list as the caller built it.
C1_ResultIndependentOfCallHistory ==
    call # <<"none">> => result = Apply(call, transaction, given)

\* C2: after every call the caller's list holds the same transactions in the
\* same order as when the caller built it.
C2_HistoryNotMutated == history = given

\* C3: on a history of size 0 or 1 no division by a zero denominator (such
\* as the history length) reaches the caller as an exception.
C3_NoZeroDivisionOnSmallHistory ==
    (call # <<"none">> /\ Len(given) <= 1) =>
        (result.ok \/ result.exc # "ZeroDivisionError")

\* C4: on a non-empty history whose dates, and the target's, are all of one
\* representation (all date objects, or all ISO strings), get_features returns
\* a feature mapping and does not raise.
C4_GetFeaturesAcceptsBothRepresentations ==
    (call = <<"get_features">> /\ Len(given) >= 1) => result.ok

\* C5: the result of a call on (transaction, H) equals the result of the same
\* call on (transaction, P) for every ordering P of H.
C5_HistoryOrderIrrelevant ==
    call # <<"none">> =>
        \A P \in Orderings(given) : Apply(call, transaction, P) = Apply(call, transaction, given)

\* C6: the mapping get_features returns holds, under interval_consistency, the
\* value of get_enhanced_features (merged later) and not the value of
\* detect_subscription_pattern, and keeps every other name the earlier
\* analyzer emitted.
C6_LastMergedWins ==
    (call = <<"get_features">> /\ Len(given) >= 1) =>
        /\ result.ok
        /\ result.val["interval_consistency"] = safe_interval_consistency(history).val
        /\ DOMAIN detect_subscription_pattern(given).val \subseteq DOMAIN result.val

ENHANCED_FEATURE_NAMES ==
    {"amt_std", "amt_med", "amt_iqr", "interval_std", "interval_med",
     "interval_consistency", "proporption", "day_of_month", "days_since_last",
     "n_similar_last_90d", "n_transactions", "same_amount_ratio"}

\* C7: whenever get_enhanced_features returns, the mapping has exactly the
\* twelve feature names, for every history including the empty one.
C7_FeatureNamesInputIndependent ==
    (call[1] = "get_enhanced_features" /\ result.ok) =>
        DOMAIN result.val = ENHANCED_FEATURE_NAMES

\* C8: get_n_transactions_days_apart(t, H, n, off) returns the number of
\* transactions of H whose absolute day distance d from t satisfies
\* d >= n - off and (d mod n <= off or d mod n >= n - off); on the seven
\* dates of its test, the first as target and n = 14, that is 2 for off = 0
\* and 4 for off = 1.
C8_DaysApartCount ==
    call[1] = "get_n_transactions_days_apart" =>
        LET n == call[2]
            off == call[3]
            d(i) == Abs(toordinal(history[i].date) - toordinal(transaction.date))
            close == {i \in 1..Len(history) :
                         d(i) >= n - off /\ (d(i) % n <= off \/ d(i) % n >= n - off)}
        IN  /\ result = Ok(Cardinality(close))
            /\ (history = DAYS_APART_TEST /\ transaction = DAYS_APART_TEST[1] /\ n = 14) =>
                   /\ off = 0 => result = Ok(2)
                   /\ off = 1 => result = Ok(4)

\* The call of the test with n_days_off = 1 has returned 4.
C8_Witness ==
    /\ call = <<"get_n_transactions_days_apart", 14, 1>>
    /\ history = DAYS_APART_TEST
    /\ transaction = DAYS_APART_TEST[1]
    /\ result = Ok(4)

\* C9: for tolerances tol1 <= tol2, get_same_amount_ratio and
\* amount_similarity return at tol1 no more than at tol2, for target amounts
\* of any sign.
C9_ToleranceMonotone ==
    call[1] \in {"get_same_amount_ratio", "amount_similarity"} =>
        \A tol1 \in TOLERANCES :
            tol1 <= call[2] =>
                RatLeq(Apply(<<call[1], tol1>>, transaction, history).val, result.val)

\* C10: get_ends_in_99 is true exactly when the amount in whole cents,
\* round(amount * 100), leaves remainder 99 modulo 100.
C10_EndsIn99IffCentsEndIn99 ==
    call = <<"get_ends_in_99">> => result = Ok(transaction.amount % 100 = 99)


\* C11: on a history of two or more transactions, a non-zero detected_cycle of
\* detect_subscription_pattern is a candidate c whose window [c-3, c+3] holds
\* the median gap, and the closest such candidate.
C11_DetectedCycleWindowHoldsMedian ==
    (/\ call = <<"detect_subscription_pattern">>
     /\ result.ok
     /\ Len(given) >= 2
     /\ result.val.detected_cycle # RatInt(0)) =>
        LET median_gap == median(Intervals(given))
            distance(c) == RatAbs(RatSub(median_gap, c))
            detected == result.val.detected_cycle
        IN  /\ detected \in {RatInt(COMMON_CYCLES[i]) : i \in 1..Len(COMMON_CYCLES)}
            /\ RatLeq(distance(detected), RatInt(3))
            /\ \A i \in 1..Len(COMMON_CYCLES) :
                   RatLeq(distance(RatInt(COMMON_CYCLES[i])), RatInt(3)) =>
                       RatLeq(distance(detected), distance(RatInt(COMMON_CYCLES[i])))


\* C12: on a history of two or more transactions, interval_consistency of
\* detect_subscription_pattern is the fraction of gaps within 0.15 * median
\* gap of the median gap, amount_consistency the fraction of amounts within
\* 0.15 * median amount of the median amount, and subscription_score the mean
\* of the two.
C12_ConsistencyWithinFifteenPercentOfMedian ==
    (call = <<"detect_subscription_pattern">> /\ result.ok /\ Len(given) >= 2) =>
        LET gaps == Intervals(given)
            median_gap == median(gaps)
            amounts == Amounts(given)
            median_amount == median(amounts)
            near_gap(g) == RatLeq(RatAbs(RatSub(RatInt(g), median_gap)),
                                  RatMul(Rat(15, 100), median_gap))
            near_amount(a) == RatLeq(RatAbs(RatSub(RatInt(a), median_amount)),
                                     RatMul(Rat(15, 100), median_amount))
            interval_consistency == Rat(CountIf(gaps, near_gap), Len(gaps))
            amount_consistency == Rat(CountIf(amounts, near_amount), Len(amounts))
        IN  /\ result.val.interval_consistency = interval_consistency
            /\ result.val.amount_consistency = amount_consistency
            /\ result.val.subscription_score =
                   RatDiv(RatAdd(interval_consistency, amount_consistency), RatInt(2))


\* C13: proportional_timing_deviation returns 0.0 whenever the history has
\* fewer than two transactions or its median gap is 0, for every target date
\* and every days_flexibility; otherwise 1.0 when |gap - median| is at most
\* days_flexibility and 1 - |gap - median| / median when not, gap being the
\* day distance from the last transaction of the list to the target.
C13_TimingDeviationZeroOnZeroMedian ==
    (call[1] = "proportional_timing_deviation" /\ result.ok) =>
        IF Len(history) < 2 THEN result.val = RatInt(0)
        ELSE LET days_flexibility == call[2]
                 median_gap == median(Intervals(history))
                 gap == toordinal(transaction.date) - toordinal(history[Len(history)].date)
                 off == RatAbs(RatSub(RatInt(gap), median_gap))
             IN  IF median_gap = RatInt(0) THEN result.val = RatInt(0)
                 ELSE IF RatLeq(off, RatInt(days_flexibility)) THEN result.val = RatInt(1)
                 ELSE result.val = RatSub(RatInt(1), RatDiv(off, median_gap))


\* kw occurs in name as a whole word, letters compared without case: an
\* occurrence with no word character next to it on either side.
WholeWord(name, kw) ==
    \E i \in 1..(Len(name) - Len(kw) + 1) :
        /\ Lower(SubSeq(name, i, i + Len(kw) - 1)) = Lower(kw)
        /\ (i = 1 \/ ~IsWordChar(name[i - 1]))
        /\ (i + Len(kw) > Len(name) \/ ~IsWordChar(name[i + Len(kw)]))

C15_DaysSinceLastEarlier ==
    call = <<"get_days_since_last_transaction">> =>
        LET day(x) == toordinal(x.date)
            earlier == {i \in 1..Len(history) :
                           /\ history[i].name = transaction.name
                           /\ day(history[i]) < day(transaction)}
        IN  /\ result.ok
            /\ result.val = 0 - 1 <=> earlier = {}
            /\ earlier # {} =>
                   /\ \E i \in earlier :
                          /\ \A j \in earlier : day(history[j]) <= day(history[i])
                          /\ result.val = day(transaction) - day(history[i])
                   /\ result.val >= 1
            /\ result.val # 0
            /\ result.val >= 0 - 1

\* The target of 2024-04-12 after a history of three whose latest Netflix
\* transaction is of 2024-03-03: 40 days.
C15_Witness ==
    /\ call = <<"get_days_since_last_transaction">>
    /\ transaction = NewTx("date")
    /\ Len(history) = 3
    /\ \E i \in 1..3 : history[i].name = VENDOR1
    /\ result = Ok(40)


\* sum((a - mean)^2) / (n - 1) of the amounts of H, the square of their
\* sample standard deviation, with n * (a - mean) = n * a - sum kept whole.
SampleVariance(H) ==
    LET n == Len(H)
        total == SumSeq(Amounts(H))
        deviation(i) == n * H[i].amount - total
    IN  Rat(SumSeq([i \in 1..n |-> deviation(i) * deviation(i)]), n * n * (n - 1))

\* C16: amount_stability_score is 0.0 on fewer than two amounts, exactly 1.0
\* on two or more amounts that are all equal (all zero included), and
\* median / stdev otherwise, with a standard deviation that is not zero.
C16_AmountStabilityScore ==
    call = <<"amount_stability_score">> =>
        /\ result.ok
        /\ IF Len(history) < 2 THEN result.val = OverSqrt(RatInt(0), RatInt(1))
           ELSE IF \A i, j \in 1..Len(history) : history[i].amount = history[j].amount
                THEN result.val = OverSqrt(RatInt(1), RatInt(1))
           ELSE /\ SampleVariance(history) # RatInt(0)
                /\ result.val = OverSqrt(median(Amounts(history)), SampleVariance(history))

\* Two amounts of zero have scored exactly 1.0.
C16_Witness ==
    /\ call = <<"amount_stability_score">>
    /\ Len(history) = 2
    /\ \A i \in 1..2 : history[i].amount = 0
    /\ result = Ok(OverSqrt(RatInt(1), RatInt(1)))

\* C17: get_n_transactions_same_amount is the number of transactions of the
\* history whose amount equals the target's, and
\* get_percent_transactions_same_amount is that number divided by the length
\* of the history, 0.0 on the empty history; on amounts 100, 100, 200 with the
\* first as target they are 2 and 2/3.
C17_SameAmountCountAndShare ==
    LET count == Cardinality({i \in 1..Len(history) :
                                 history[i].amount = transaction.amount})
        test == history = SAME_AMOUNT_TEST /\ transaction = SAME_AMOUNT_TEST[1]
    IN  /\ call = <<"get_n_transactions_same_amount">> =>
               /\ result = Ok(count)
               /\ test => result = Ok(2)
        /\ call = <<"get_percent_transactions_same_amount">> =>
               /\ result.ok
               /\ IF history = <<>> THEN result.val = RatInt(0)
                  ELSE RatMul(result.val, RatInt(Len(history))) = RatInt(count)
               /\ test => result.val = Rat(2, 3)

\* The share on the test's list, the first transaction as target, is 2/3.
C17_Witness ==
    /\ call = <<"get_percent_transactions_same_amount">>
    /\ history = SAME_AMOUNT_TEST
    /\ transaction = SAME_AMOUNT_TEST[1]
    /\ result = Ok(Rat(2, 3))


\* C18: get_n_transactions_same_day is the number of transactions of the
\* history whose day of the month differs from the target's by at most
\* n_days_off in absolute value, with no wrap-around at the month end, and
\* get_pct_transactions_same_day is that number divided by the length of the
\* history (a division by zero on the empty history).
C18_SameDayCountAndShare ==
    call[1] \in {"get_n_transactions_same_day", "get_pct_transactions_same_day"} =>
        LET n_days_off == call[2]
            count == Cardinality({i \in 1..Len(history) :
                         Abs(history[i].date.d - transaction.date.d) <= n_days_off})
        IN  IF call[1] = "get_n_transactions_same_day" THEN result = Ok(count)
            ELSE IF history = <<>> THEN ~result.ok /\ result.exc = "ZeroDivisionError"
            ELSE /\ result.ok
                 /\ RatMul(result.val, RatInt(Len(history))) = RatInt(count)

\* A target of day 31 and a history of days 1, 2 and 30: with n_days_off 1
\* only day 30 is counted.
C18_Witness ==
    /\ call = <<"get_n_transactions_same_day", 1>>
    /\ transaction.date.d = 31
    /\ {history[i].date.d : i \in 1..Len(history)} = {1, 2, 30}
    /\ result = Ok(1)


\* Transaction i of H comes before transaction j in date order, equal dates
\* in list order.
Before(H, i, j) ==
    \/ toordinal(H[i].date) < toordinal(H[j].date)
    \/ toordinal(H[i].date) = toordinal(H[j].date) /\ i < j

\* The pairs of neighbours of H in date order.
Neighbours(H) ==
    {p \in (1..Len(H)) \X (1..Len(H)) :
        /\ Before(H, p[1], p[2])
        /\ ~\E k \in 1..Len(H) : Before(H, p[1], k) /\ Before(H, k, p[2])}

\* C19: get_transaction_intervals returns its five defaults of 0.0 on an
\* empty or singleton history; on a history of two or more the gaps it takes
\* are non-negative and monthly_recurrence is the fraction of the gaps, those
\* between neighbours in date order, that lie in [23, 37].
C19_IntervalDefaultsAndMonthlyShare ==
    call = <<"get_transaction_intervals">> =>
        IF Len(history) < 2
        THEN result = Ok([avg_days_between_transactions |-> RatInt(0),
                          std_dev_days_between_transactions |-> Sqrt(RatInt(0)),
                          monthly_recurrence |-> RatInt(0),
                          same_weekday_ratio |-> RatInt(0),
                          same_amount |-> RatInt(0)])
        ELSE LET gap(p) == toordinal(history[p[2]].date) - toordinal(history[p[1]].date)
                 monthly == {p \in Neighbours(history) : 23 <= gap(p) /\ gap(p) <= 37}
             IN  /\ result.ok
                 /\ \A i \in 1..Len(Intervals(history)) : Intervals(history)[i] >= 0
                 /\ RatLeq(RatInt(0), result.val.avg_days_between_transactions)
                 /\ result.val.monthly_recurrence =
                        Rat(Cardinality(monthly), Len(history) - 1)

\* A history of 2024-01-31, 2024-01-01, 2024-03-01 in that order: both gaps
\* in date order are of 30 days.
C19_Witness ==
    /\ call = <<"get_transaction_intervals">>
    /\ Len(history) = 3
    /\ <<history[1].date.m, history[2].date.m, history[3].date.m>> = <<1, 1, 3>>
    /\ <<history[1].date.d, history[2].date.d, history[3].date.d>> = <<31, 1, 1>>
    /\ result.val.monthly_recurrence = RatInt(1)

\* C20: on a history of two or more, same_amount of get_transaction_intervals
\* is the fraction of amounts a with |a - a0| <= 5% of |a0|, a0 the amount of
\* the first transaction of the list, whatever the sign of a0; so the first
\* transaction counts and same_amount >= 1 / len(H).
C20_SameAmountWithinFivePercentOfFirst ==
    (call = <<"get_transaction_intervals">> /\ Len(history) >= 2 /\ result.ok) =>
        LET a0 == history[1].amount
            near == {i \in 1..Len(history) :
                        20 * Abs(history[i].amount - a0) <= Abs(a0)}
        IN  /\ result.val.same_amount = Rat(Cardinality(near), Len(history))
            /\ RatLeq(Rat(1, Len(history)), result.val.same_amount)

\* The sign of min(sqrt(v) / (m + 1e-8), 1.0) for a quotient v >= 0 and a
\* median m that is a multiple of half a cent or half a day: the value is at
\* most 1, is 0 when v = 0, and is negative when v > 0 and m < 0.
ScoreInUnitRange(x) ==
    x.min1_sqrt = RatInt(0) \/ RatLeq(RatInt(0), x.den_plus_eps)

ScoreIsZero(x) == x.min1_sqrt = RatInt(0)

\* C21: for every history the three values of detect_non_recurring_pattern
\* lie in [0, 1], non_recurring_score is the mean of the other two, and all
\* three are 0.0 when the history has fewer than 2 transactions.
C21_NonRecurringScoresInUnitRange ==
    (call = <<"detect_non_recurring_pattern">> /\ result.ok) =>
        LET r == result.val
        IN  /\ ScoreInUnitRange(r.irregular_interval_score)
            /\ ScoreInUnitRange(r.inconsistent_amount_score)
            /\ r.non_recurring_score =
                   <<r.irregular_interval_score, r.inconsistent_amount_score>>
            /\ Len(history) < 2 =>
                   /\ ScoreIsZero(r.irregular_interval_score)
                   /\ ScoreIsZero(r.inconsistent_amount_score)

\* The sample variance of the distinct calendar months of H, 0 when there
\* are fewer than two of them.
DistinctMonthsVariance(H) ==
    LET S == {H[i].date.m : i \in 1..Len(H)}
        k == Cardinality(S)
        su == SumSeq(SortedSeqOf(S))
        sq == SumSeq([i \in 1..k |-> SortedSeqOf(S)[i] * SortedSeqOf(S)[i]])
    IN  IF k < 2 THEN RatInt(0) ELSE Rat(k * sq - su * su, k * (k - 1))

ListedMonthsVariance(H) ==
    LET n == Len(H)
        total == SumSeq([i \in 1..n |-> H[i].date.m])
    IN  Rat(SumSeq([i \in 1..n |-> (n * H[i].date.m - total) * (n * H[i].date.m - total)]),
            n * n * (n - 1))

C23_FrequencyAndCommonCycle ==
    call = <<"get_transaction_stability_features">> =>
        IF Len(history) < 2
        THEN /\ result.ok
             /\ DOMAIN result.val = {"transaction_frequency", "robust_interval_median",
                                     "robust_interval_iqr",
                                     "coefficient_of_variation_intervals",
                                     "amount_variability_ratio", "matches_common_cycle",
                                     "recurring_confidence"}
             /\ \A k \in DOMAIN result.val : result.val[k] = RatInt(0)
        ELSE LET ords == {toordinal(history[i].date) : i \in 1..Len(history)}
                 first == CHOOSE o \in ords : \A q \in ords : o <= q
                 last == CHOOSE o \in ords : \A q \in ords : q <= o
                 total_days == last - first
                 gap(p) == toordinal(history[p[2]].date) - toordinal(history[p[1]].date)
                 near == {p \in Neighbours(history) :
                             \E c \in {7, 14, 30, 90, 365} : Abs(gap(p) - c) <= 3}
             IN  /\ result.ok
                 /\ result.val.transaction_frequency =
                        IF total_days > 30 THEN Rat(30 * Len(history), total_days)
                        ELSE RatInt(Len(history))
                 /\ RatLeq(result.val.transaction_frequency, RatInt(Len(history)))
                 /\ result.val.matches_common_cycle = RatInt(1) <=> near # {}
                 /\ result.val.matches_common_cycle \in {RatInt(0), RatInt(1)}

\* Dates of 19 January, 21 February and 1 January, in that order: gaps of 18
\* and 33 days over a span of 51 days.
C23_Witness ==
    /\ call = <<"get_transaction_stability_features">>
    /\ Len(history) = 3
    /\ <<history[1].date.m, history[2].date.m, history[3].date.m>> = <<1, 2, 1>>
    /\ <<history[1].date.d, history[2].date.d, history[3].date.d>> = <<19, 21, 1>>
    /\ result.val.matches_common_cycle = RatInt(1)
    /\ result.val.transaction_frequency = Rat(30, 17)

\* The averages of the amounts of H per bucket, key(h) the bucket of h.
BucketAverages(H, key(_)) ==
    LET ks == SortedSeqOf({key(H[i]) : i \in 1..Len(H)})
        total(k) == SumSeq([i \in 1..Len(H) |-> IF key(H[i]) = k THEN H[i].amount ELSE 0])
        size(k) == Cardinality({i \in 1..Len(H) : key(H[i]) = k})
    IN  [j \in 1..Len(ks) |-> Rat(total(ks[j]), size(ks[j]))]

\* sqrt(sum((a - mean)^2) / divisor) / mean over the averages, and 0.0 when
\* there are fewer than two averages or their mean is 0.
VariationOver(avgs, divisor) ==
    LET mu == RatDiv(RatSum(avgs), RatInt(Len(avgs)))
        sq == RatSum([i \in 1..Len(avgs) |->
                         RatMul(RatSub(avgs[i], mu), RatSub(avgs[i], mu))])
    IN  IF Len(avgs) < 2 THEN SqrtOver(RatInt(0), RatInt(1))
        ELSE IF mu.n = 0 THEN SqrtOver(RatInt(0), RatInt(1))
        ELSE SqrtOver(RatDiv(sq, RatInt(divisor)), mu)

\* Two values sqrt(v) / a are the same number.
SameVariation(x, y) == (x.sqrt.n = 0 /\ y.sqrt.n = 0) \/ x = y

ShiftedIsoWeek(h) == IsoWeek(toordinal(h.date) - (weekday(h.date) % 3))

CalendarMonth(h) == h.date.m

\* C24: weekly_spending_cycle and seasonal_spending_cycle return the
\* population standard deviation (divisor: the number of buckets) of the
\* per-bucket average amounts over the mean of those averages, and 0.0 with
\* fewer than 2 buckets or a mean of 0; the buckets are the shifted ISO week
\* number and the calendar month, whatever the year.
C24_SpendingCyclePopulationVariation ==
    /\ (call = <<"weekly_spending_cycle">> /\ result.ok) =>
           LET avgs == BucketAverages(history, ShiftedIsoWeek)
           IN  SameVariation(result.val, VariationOver(avgs, Len(avgs)))
    /\ (call = <<"seasonal_spending_cycle">> /\ result.ok) =>
           LET own == SelectSeq(history, LAMBDA h : h.name = transaction.name)
               avgs == BucketAverages(own, CalendarMonth)
           IN  SameVariation(result.val, VariationOver(avgs, Len(avgs)))

\* C24, amended: both return the sample standard deviation (divisor: the
\* number of buckets less one) of the per-bucket average amounts over the
\* mean of those averages, and 0.0 with fewer than 2 buckets or a mean of 0;
\* the buckets are the shifted ISO week number of every history transaction
\* and the calendar month of the history transactions bearing the target's
\* name, whatever the year.
C24_SpendingCycleSampleVariation ==
    /\ call = <<"weekly_spending_cycle">> =>
           LET avgs == BucketAverages(history, ShiftedIsoWeek)
           IN  /\ result.ok
               /\ SameVariation(result.val, VariationOver(avgs, Len(avgs) - 1))
    /\ call = <<"seasonal_spending_cycle">> =>
           LET own == SelectSeq(history, LAMBDA h : h.name = transaction.name)
               avgs == BucketAverages(own, CalendarMonth)
           IN  /\ result.ok
               /\ SameVariation(result.val, VariationOver(avgs, Len(avgs) - 1))

\* Amounts 5.00 of 2 January 2023 and 7.00 of 6 January 2024 share week 1 and
\* average 6.00; 5.50 of 9 January 2023 is alone in week 2: the averages 6.00
\* and 5.50 have sample variance 1250 square cents and mean 575 cents.
C24_Witness ==
    /\ call = <<"weekly_spending_cycle">>
    /\ Len(history) = 3
    /\ {history[i].id : i \in 1..3} = {1, 2, 3}
    /\ result = Ok(SqrtOver(RatInt(1250), RatInt(575)))

\* The gaps of H between neighbouring dates, clipped at the 5th and 95th
\* percentiles of the gaps.
ClippedGaps(H) ==
    LET gaps == Intervals(H)
    IN  [i \in 1..Len(gaps) |->
            Clip(RatInt(gaps[i]), percentile_linear(gaps, 5), percentile_linear(gaps, 95))]

\* C25: safe_interval_consistency(H) returns 0.0 whenever H yields fewer than
\* 6 gaps (fewer than 7 transactions) or the mean of the clipped gaps is 0,
\* returns exactly 1.0 whenever H yields at least 6 gaps that are all equal
\* and positive, and never returns more than 1.0: it returns 1 - s / m with
\* s >= 0 a standard deviation and m > 0 the mean of the clipped gaps.
C25_SafeIntervalConsistency ==
    call = <<"safe_interval_consistency">> =>
        LET gaps == Intervals(history)
        IN  /\ result.ok
            /\ result.val.one_minus_sqrt.n >= 0
            /\ Len(history) < 7 => result.val.one_minus_sqrt = RatInt(1)
            /\ Len(history) >= 7 =>
                   /\ RatLeq(RatInt(0), RatSum(ClippedGaps(history)))
                   /\ RatSum(ClippedGaps(history)).n = 0 =>
                          result.val.one_minus_sqrt = RatInt(1)
                   /\ (gaps[1] > 0 /\ \A i \in 1..Len(gaps) : gaps[i] = gaps[1]) =>
                          result.val.one_minus_sqrt = RatInt(0)

\* Seven transactions 5 days apart, the latest first.
C25_Witness ==
    /\ call = <<"safe_interval_consistency">>
    /\ Len(history) = 7
    /\ \A i \in 1..6 :
           toordinal(history[i].date) - toordinal(history[i + 1].date) = 5
    /\ result = Ok(OneMinusSqrt(RatInt(0)))

\* C26: get_features returns a mapping in which likely_same_amount,
\* amount_ratio and same_amount_ratio are one value, and amount_similarity
\* and get_same_amount_ratio return the same value for every transaction,
\* history and tolerance.
C26_SameAmountFeaturesAgree ==
    /\ (call = <<"get_features">> /\ Len(given) >= 1) =>
           /\ result.ok
           /\ result.val["likely_same_amount"] = result.val["amount_ratio"]
           /\ result.val["amount_ratio"] = result.val["same_amount_ratio"]
    /\ call[1] = "amount_similarity" =>
           result = Apply(<<"get_same_amount_ratio", call[2]>>, transaction, history)
    /\ call[1] = "get_same_amount_ratio" =>
           result = Apply(<<"amount_similarity", call[2]>>, transaction, history)

\* C27: get_features passes len(all_transactions) as the size of the
\* transaction universe, so the mapping it returns for a non-empty history
\* holds proporption = 1.0, whereas get_vendor_recurrence_score(H, total)
\* returns len(H) / total, and 0.0 when total is 0.
C27_ProportionConstantUnderAggregator ==
    /\ (call = <<"get_features">> /\ Len(given) >= 1) =>
           /\ result.ok
           /\ result.val["proporption"] = RatInt(1)
    /\ call[1] = "get_vendor_recurrence_score" =>
           result = Ok(IF call[2] = 0 THEN RatInt(0) ELSE Rat(Len(history), call[2]))

\* C28: in get_n_transactions_days_apart with 0 <= n_days_off < n_days_apart
\* a history transaction of the target's own day, the target itself included,
\* is never counted (the count is what it is on the history without them),
\* and for a fixed target, history and n_days_apart the count does not
\* decrease when n_days_off increases.
C28_SameDayNotCountedAndMonotoneInOff ==
    (call[1] = "get_n_transactions_days_apart" /\ 0 <= call[3] /\ call[3] < call[2]) =>
        LET other_days == SelectSeq(history, LAMBDA h :
                              toordinal(h.date) # toordinal(transaction.date))
        IN  /\ result.ok
            /\ result = Apply(call, transaction, other_days)
            /\ result.val <= Len(other_days)
            /\ \A off \in 0..call[3] :
                   Apply(<<call[1], call[2], off>>, transaction, history).val <= result.val

\* The target of 14 January within the eight dates: at 7 days apart, off by
\* 1, the dates 13, 15 and 29 days away count and the target does not; off
\* by 0, none counts.
C28_Witness ==
    /\ call = <<"get_n_transactions_days_apart", 7, 1>>
    /\ history = DAYS_APART_DATES
    /\ transaction = DAYS_APART_DATES[3]
    /\ result = Ok(3)
    /\ Apply(<<"get_n_transactions_days_apart", 7, 0>>, transaction, history) = Ok(0)

\* C29: for every entry k of KNOWN_RECURRING_COMPANIES,
\* detect_recurring_company(k) returns recurring_score = 1.0 and
\* is_recurring_company = 1, and get_transaction_stability_features returns
\* recurring_confidence = 1.0 for a history of two or more that holds a
\* transaction named k.
C29_KnownCompaniesRecognised ==
    /\ (call = <<"detect_recurring_company">>
            /\ transaction.name \in KNOWN_RECURRING_COMPANIES) =>
           /\ result.ok
           /\ result.val.recurring_score = RatInt(1)
           /\ result.val.is_recurring_company = 1
    /\ (call = <<"get_transaction_stability_features">> /\ Len(history) >= 2
            /\ \E i \in 1..Len(history) : history[i].name \in KNOWN_RECURRING_COMPANIES) =>
           /\ result.ok
           /\ result.val.recurring_confidence = RatInt(1)

====
